---- MODULE Spec2Model ----
(***************************************************************************)
(* Model of the qwen-router relay (src/server.js): the OAuth credential    *)
(* lifecycle (readCredentials, writeCredentials, getAccessToken,           *)
(* refreshToken with its refreshLock, ensureValidToken, checkAuthStatus)   *)
(* and the request relay (the POST /v1/chat/completions handler,           *)
(* handleChatCompletion, executeWithRetry, GET /health).                   *)
(*                                                                         *)
(* Node runs one callback at a time: an action of this model is one        *)
(* macrotask (an arriving request, a completed network call, one stream    *)
(* chunk) together with the promise continuations it makes runnable, which *)
(* Node drains before it takes the next event.                             *)
(*                                                                         *)
(* Encoding of JavaScript values: an absent/undefined/null number is 0, an *)
(* absent string is "", an absent URL is <<>> (all of them falsy in the    *)
(* code's || and ! tests); the null credentials object is Null.            *)
(***************************************************************************)
EXTENDS Integers, Sequences, FiniteSets, TLC

\* ------------------------------------------------------------- bounds ----
NumRequests == 2      \* inbound chat-completion requests
MaxTicks    == 1      \* steps of the clock
TickMs      == 150000 \* milliseconds per clock step
MaxOps      == 2      \* refresh operations started in one run
MaxChunks   == 2      \* chunks of one upstream stream
MaxMessages == 3      \* messages of one inbound body
MaxTools    == 2      \* tools of one inbound body

\* -------------------------------------------------- program constants ----
SAFETY_MARGIN_MS   == 300000   \* getAccessToken / checkAuthStatus buffer
DEFAULT_EXPIRES_IN == 3600     \* tokenData.expires_in || 3600
MS_PER_SECOND      == 1000     \* ... * 1000
STATUS_INTERNAL    == 500      \* res.status(500) / || 500
STATUS_UNAUTHORIZED == 401
STATUS_FORBIDDEN   == 403
STATUS_TOO_MANY    == 429
STATUS_BAD_REQUEST == 400
STATUS_OK          == 200

Requests == 1 .. NumRequests

\* The first request is the request under observation: it comes with or
\* without the router key, streaming or not, and its sends succeed or fail
\* with 403, 429, 500 or no response. The others are the traffic around it:
\* well-formed, non-streaming requests, numbered in their order of arrival,
\* whose sends succeed or fail with 401 (what makes them call refreshToken()).
Observed == CHOOSE r \in Requests : \A q \in Requests : r <= q
VARIABLES
    now,          \* Date.now(), in ms since the start of the run
    file,         \* content of CREDENTIALS_PATH: none, unparsable, or JSON text
    credentials,  \* let credentials (server.js:33)
    refreshLock,  \* let refreshLock (server.js:34): 0 is null, else the promise
    ops,          \* the promises refreshToken() has created, in creation order
    started,      \* the listen callback (checkAuthStatus) has run
    routerKey,    \* ROUTER_API_KEY: 0 when not configured
    writable,     \* fs.writeFileSync(CREDENTIALS_PATH, ...) succeeds in this run
    tokenData,    \* the shape of the OAuth provider's answers in this run
    req           \* per inbound request: its position, client and response

vars == <<now, file, credentials, refreshLock, ops, started, routerKey,
          writable, tokenData, req>>

\* --------------------------------------------------------- the values ----
Null        == [null |-> TRUE]
NoBody      == [none |-> TRUE]
FileMissing == [missing |-> TRUE]
FileCorrupt == [corrupt |-> TRUE]

PortalHint == <<"portal.qwen.ai">>

DEFAULT_DASHSCOPE_BASE_URL ==
    <<"https://", "dashscope.aliyuncs.com/compatible-mode", "/v1">>

\* The record `qwen login` left in the file before the server starts: its
\* token is usable at the start and within the safety margin one clock step
\* later.
LoginRecord ==
    [access_token |-> 1, token_type |-> "Bearer", refresh_token |-> 1,
     resource_url |-> <<>>, expiry_date |-> SAFETY_MARGIN_MS + TickMs]

\* response.data of a successful token exchange:
\* {access_token, token_type?, refresh_token?, resource_url?, expires_in?}.
\* The access token is filled in per exchange (FreshToken).
MinimalResponse ==
    [access_token |-> 0, token_type |-> "", refresh_token |-> 0,
     resource_url |-> <<>>, expires_in |-> 0]
FullResponse ==
    [access_token |-> 0, token_type |-> "Bearer", refresh_token |-> 2,
     resource_url |-> PortalHint, expires_in |-> 300]
TokenResponses == { MinimalResponse, FullResponse }

\* The access token the provider issues for the i-th exchange: a new one.
FreshToken(i) == 10 + i

\* Statuses a failed token exchange can carry (0: no response, a timeout).
RefreshFailureStatuses == {0, STATUS_BAD_REQUEST, STATUS_UNAUTHORIZED, STATUS_INTERNAL}

IsRecord(f) == f # FileMissing /\ f # FileCorrupt

\* ---------------------------------------------------- credential store ----

\* The members of a credentials object, in the order refreshToken() and
\* `qwen login` write them, and the value a record has for one of them.
CredentialKeys ==
    <<"access_token", "token_type", "refresh_token", "resource_url",
      "expiry_date">>
Field(c, key) ==
    CASE key = "access_token"  -> c.access_token
      [] key = "token_type"    -> c.token_type
      [] key = "refresh_token" -> c.refresh_token
      [] key = "resource_url"  -> c.resource_url
      [] key = "expiry_date"   -> c.expiry_date

\* The value that stands for undefined in the member: no token (0), no
\* string (""), no URL (<<>>), no number (0).
Undefined(key) ==
    CASE key = "token_type"   -> ""
      [] key = "resource_url" -> <<>>
      [] OTHER                -> 0

\* JSON.stringify that leaves out the last member of the object.
JSONstringifyTruncated(c) ==
    LET all == SelectSeq(CredentialKeys,
                         LAMBDA key : Field(c, key) # Undefined(key))
    IN  [k \in 1 .. Len(all) - 1 |-> [key |-> all[k], value |-> Field(c, all[k])]]

\* JSON.stringify(creds, null, 2): the text is the sequence of the object's
\* members, each a key and its value; a member whose value is undefined is
\* left out.
JSONstringify(c) ==
    LET all == SelectSeq(CredentialKeys,
                         LAMBDA key : Field(c, key) # Undefined(key))
    IN  [k \in 1 .. Len(all) |-> [key |-> all[k], value |-> Field(c, all[k])]]

\* What obj.key reads on the object JSON.parse builds from the text: the
\* member's value, undefined when the text has no such member.
Member(text, key) ==
    IF \E k \in DOMAIN text : text[k].key = key
    THEN text[CHOOSE k \in DOMAIN text : text[k].key = key].value
    ELSE Undefined(key)

\* JSON.parse(text), as the record of what its members read.
JSONparse(text) ==
    [access_token  |-> Member(text, "access_token"),
     token_type    |-> Member(text, "token_type"),
     refresh_token |-> Member(text, "refresh_token"),
     resource_url  |-> Member(text, "resource_url"),
     expiry_date   |-> Member(text, "expiry_date")]

\* The file whose text is the record c, stringified.
Stored(c) == [text |-> JSONstringify(c)]

\* readCredentials() without its try/catch around JSON.parse: an unparsable
\* file is not caught as one, and something is cached.
readCredentialsUncaught(c) ==
    IF file = [missing |-> TRUE] THEN c
    ELSE IF file = [corrupt |-> TRUE]
    THEN [access_token |-> 1, token_type |-> "", refresh_token |-> 1,
          resource_url |-> <<>>, expiry_date |-> 0]
    ELSE JSONparse(file.text)

\* readCredentials(): the value of `credentials` after the call. A missing or
\* unparsable file leaves the variable as it was (the function returns null).
readCredentials(c) == IF IsRecord(file) THEN JSONparse(file.text) ELSE c

\* `readCredentials();` whether a record is cached or not.
LoadAlways(c) == readCredentials(c)

\* `if (!credentials) readCredentials();`
LoadIfNull(c) == IF c = Null THEN readCredentials(c) ELSE c

\* The test of getAccessToken and checkAuthStatus:
\* now >= (credentials.expiry_date || 0) - 300000.
WithinMargin(c) == now >= c.expiry_date - SAFETY_MARGIN_MS

\* getAccessToken() with the buffer applied on both sides of the test
\* (now + 300000 >= expiry_date - 300000).
getAccessTokenDoubleMargin(c) ==
    IF c = Null THEN 0
    ELSE IF now + SAFETY_MARGIN_MS >= c.expiry_date - SAFETY_MARGIN_MS THEN 0
    ELSE c.access_token

\* getAccessToken() whose test is `now > ... - 300000`: at the boundary the
\* cached token is still returned.
getAccessTokenStrict(c) ==
    IF c = Null THEN 0
    ELSE IF now > c.expiry_date - SAFETY_MARGIN_MS THEN 0
    ELSE c.access_token

\* getAccessToken() on the (already loaded) record c: 0 is null.
getAccessToken(c) ==
    IF c = Null THEN 0
    ELSE IF WithinMargin(c) THEN 0
    ELSE c.access_token

\* getApiBaseUrl() on the (already loaded) record c. A URL is the sequence of
\* its parts; startsWith('http') looks at the first part, endsWith('/v1') at
\* the last.
StartsWithHttp(u) ==
    Len(u) > 0 /\ u[1] \in {"http://", "https://", "httpd.qwen.ai"}
EndsWithV1(u)     == Len(u) > 0 /\ u[Len(u)] = "/v1"

getApiBaseUrl(c) ==
    LET resourceUrl == IF c = Null THEN <<>> ELSE c.resource_url
        normalized  == IF StartsWithHttp(resourceUrl) THEN resourceUrl
                       ELSE <<"https://">> \o resourceUrl
    IN  IF resourceUrl = <<>> THEN DEFAULT_DASHSCOPE_BASE_URL
        ELSE IF EndsWithV1(normalized) THEN normalized
        ELSE normalized \o <<"/v1">>

\* ------------------------------------------------------ refreshToken ----

\* The refresh operations whose promise is still pending: each of them has a
\* token-exchange call in flight.
InFlight(os) == { i \in DOMAIN os : os[i].pending }

\* The operations that issued a token-exchange call.
Exchanged(os) == { i \in DOMAIN os : os[i].net }

\* refreshToken() called with credentials c, promises os and refreshLock lk:
\* the three afterwards, and p, the promise it returns.
\*   - lk set: that promise is returned, nothing else happens;
\*   - otherwise the async body runs up to its first await. With a refresh
\*     token it issues the token exchange and the promise stays pending.
\*     Without one it returns null at once: its `finally` clears refreshLock
\*     BEFORE line 93 assigns the (already resolved) promise to refreshLock,
\*     which therefore stays set.
refreshBody(c, os) ==
    LET c2 == LoadIfNull(c)
        p  == Len(os) + 1
    IN  IF c2 # Null /\ c2.refresh_token # 0
        THEN [creds |-> c2, lock |-> p, p |-> p,
              ops |-> Append(os, [pending |-> TRUE, value |-> 0, net |-> TRUE, status |-> 0])]
        ELSE [creds |-> c2, lock |-> p, p |-> p,
              ops |-> Append(os, [pending |-> FALSE, value |-> 0, net |-> FALSE, status |-> 0])]

\* refreshToken() without `if (refreshLock) return refreshLock;`.
refreshTokenNoLock(c, os, lk) == refreshBody(c, os)

refreshToken(c, os, lk) ==
    IF lk # 0 THEN [creds |-> c, lock |-> lk, p |-> lk, ops |-> os]
    ELSE refreshBody(c, os)

\* newCreds made of the token response alone: what the response omits is
\* not there in the new record.
newCredsNoCarry(td, c) ==
    [access_token  |-> td.access_token,
     token_type    |-> IF td.token_type # "" THEN td.token_type ELSE "Bearer",
     refresh_token |-> td.refresh_token,
     resource_url  |-> td.resource_url,
     expiry_date   |-> now + (IF td.expires_in # 0 THEN td.expires_in
                              ELSE DEFAULT_EXPIRES_IN) * MS_PER_SECOND]

\* newCreds of a successful exchange answered with tokenData td, for the
\* operation that sent the record c's refresh token.
newCreds(td, c) ==
    [access_token  |-> td.access_token,
     token_type    |-> IF td.token_type # "" THEN td.token_type ELSE "Bearer",
     refresh_token |-> IF td.refresh_token # 0 THEN td.refresh_token
                       ELSE c.refresh_token,
     resource_url  |-> IF td.resource_url # <<>> THEN td.resource_url
                       ELSE c.resource_url,
     expiry_date   |-> now + (IF td.expires_in # 0 THEN td.expires_in
                              ELSE DEFAULT_EXPIRES_IN) * MS_PER_SECOND]

\* ------------------------------------------------ the upstream's answers ----

\* The `error` member of an upstream error body, by status.
UpstreamErrorBodies(st) ==
    IF st = STATUS_INTERNAL
    THEN { [message |-> "internal error", type |-> "", code |-> "", param |-> ""] }
    ELSE IF st = STATUS_TOO_MANY
    THEN { [message |-> "rate limited", type |-> "rate_limit_error",
            code |-> "rate_limit_exceeded", param |-> ""] }
    ELSE { [message |-> "invalid access token", type |-> "authentication_error",
            code |-> "invalid_api_key", param |-> ""] }

\* The headers of an error. A fetch Headers object keeps its entries (here
\* the Retry-After value, 0: none) behind get(), and has no property named
\* after a header; an error without a response has no headers (undefined).
FetchHeaders(ra) == [class |-> "Headers", retry_after |-> ra]
NoHeaders        == [class |-> "undefined", retry_after |-> 0]

\* error.headers?.['retry-after'] (0: undefined): a property read, which finds
\* a header only on a plain object of header names.
HeadersIndex(h, name) ==
    IF h.class = "Object" /\ name = "retry-after" THEN h.retry_after ELSE 0

\* The error client.chat.completions.create() throws for an upstream answer
\* of status st with error body b and Retry-After value ra (0: no header).
\* openai v6 (the version the walkthrough's Dependencies and server.js:207
\* name) gives the error the message "<status> <message>", the body's type and
\* code, and as `headers` the response's fetch Headers object. upstream is
\* the body the upstream sent, which the code does not read.
ApiError(st, b, ra) ==
    [status |-> st, message |-> ToString(st) \o " " \o b.message,
     type |-> b.type, code |-> b.code,
     headers |-> FetchHeaders(ra), upstream |-> [error |-> b]]

\* A failure without a response (connection error, timeout, error event of a
\* stream): no status, no type, no code, no headers.
ConnectionError ==
    [status |-> 0, message |-> "Connection error.", type |-> "", code |-> "",
     headers |-> NoHeaders, upstream |-> NoBody]

NoError ==
    [status |-> 0, message |-> "", type |-> "", code |-> "",
     headers |-> NoHeaders, upstream |-> NoBody]

SendFailures ==
    { ApiError(st, b, ra) :
        st \in {STATUS_FORBIDDEN},
        b \in UpstreamErrorBodies(STATUS_UNAUTHORIZED), ra \in {0} }
    \cup { ApiError(STATUS_INTERNAL, b, 0) : b \in UpstreamErrorBodies(STATUS_INTERNAL) }
    \cup { ApiError(STATUS_TOO_MANY, b, ra) :
             b \in UpstreamErrorBodies(STATUS_TOO_MANY), ra \in {12} }
    \cup { ConnectionError }

\* Errors thrown while the stream is iterated.
StreamFailures == { ConnectionError }

\* What the upstream can answer r's send with, besides success.
FailuresOf(r) ==
    IF r = Observed THEN SendFailures
    ELSE { ApiError(STATUS_UNAUTHORIZED, b, 0) :
             b \in UpstreamErrorBodies(STATUS_UNAUTHORIZED) }

\* The Authorization bearer values and stream flags r can arrive with.
BearersOf(r) == IF r = Observed THEN {0, 8, 9} ELSE {9}
StreamsOf(r) == IF r = Observed THEN BOOLEAN ELSE {FALSE}

\* isAuthError(error)
isAuthError(e) == e.status = STATUS_UNAUTHORIZED \/ e.status = STATUS_FORBIDDEN

\* ------------------------------------------------- the request body ----
\* JavaScript values of the body's scalar members are written as strings:
\* "undefined" (the member is absent), "null", "0", "''" (the empty string),
\* and others. Truthy(v) is what `if (v)` and `v || d` test.
Absent == "undefined"
Truthy(v) == v \notin {"undefined", "null", "0", "''", "false"}

DEFAULT_MODEL == "coder-model"

\* crypto.randomUUID() values are numbers; the one drawn when the module
\* loads is the first.
SESSION_ID == 1
EPHEMERAL == "ephemeral"

\* One part of a structured content; cache_control is "" (none) or EPHEMERAL
\* ({type: 'ephemeral'}).
Part(t) == [type |-> "text", text |-> t, cache_control |-> ""]

\* A message content: a string, an array of parts, or null.
Str(t)      == [kind |-> "string", text |-> t, parts |-> <<>>]
Arr(ps)     == [kind |-> "array", text |-> "", parts |-> ps]
NullContent == [kind |-> "null", text |-> "", parts |-> <<>>]

\* The tools member: an array, null, or undefined (not there).
Tools(ts) == [kind |-> "array", list |-> ts]
NullTools == [kind |-> "null", list |-> <<>>]
NoTools   == [kind |-> "undefined", list |-> <<>>]
Tool(n)   == [name |-> n, cache_control |-> ""]

\* `reqBody.tools || null`: an array is truthy, the empty one too.
OrNull(tools) == IF tools.kind = "array" THEN tools ELSE NullTools

\* The tools with the marker on the last of them; undefined for no array
\* (toolsCopy).
MarkTools(tools) ==
    IF tools.kind # "array" THEN NoTools
    ELSE IF Len(tools.list) > 0
    THEN Tools([tools.list EXCEPT ![Len(tools.list)].cache_control = EPHEMERAL])
    ELSE tools

\* The content with the marker on part i: a string becomes one marked text
\* part; an array gets the marker on its part i; an empty array and null stay.
MarkContent(c, i) ==
    IF c.kind = "string"
    THEN Arr(<< [Part(c.text) EXCEPT !.cache_control = EPHEMERAL] >>)
    ELSE IF c.kind = "array" /\ Len(c.parts) > 0
    THEN Arr([k \in DOMAIN c.parts |->
                IF k = i THEN [c.parts[k] EXCEPT !.cache_control = EPHEMERAL]
                ELSE c.parts[k]])
    ELSE c

\* The positions of the messages with the role.
WithRole(messages, role) == { k \in DOMAIN messages : messages[k].role = role }
Least(S)    == CHOOSE k \in S : \A j \in S : k <= j
Greatest(S) == CHOOSE k \in S : \A j \in S : j <= k

\* addCacheControl that annotates whether the request streams or not.
addCacheControlAlways(messages, tools, isStreaming) ==
    LET sys == WithRole(messages, "system")
        m1  == IF sys = {} THEN messages
               ELSE [messages EXCEPT ![Least(sys)].content = MarkContent(@, 1)]
        usr == WithRole(m1, "user")
        m2  == IF usr = {} THEN m1
               ELSE [m1 EXCEPT ![Greatest(usr)].content =
                                   MarkContent(@, Len(@.parts))]
    IN  [messages |-> m2, tools |-> MarkTools(tools)]

\* addCacheControl that annotates every system message.
addCacheControlEverySystem(messages, tools, isStreaming) ==
    IF ~isStreaming THEN [messages |-> messages, tools |-> tools]
    ELSE
    LET m1  == [k \in DOMAIN messages |->
                  IF messages[k].role = "system"
                  THEN [messages[k] EXCEPT !.content = MarkContent(@, 1)]
                  ELSE messages[k]]
        usr == WithRole(m1, "user")
        m2  == IF usr = {} THEN m1
               ELSE [m1 EXCEPT ![Greatest(usr)].content =
                                   MarkContent(@, Len(@.parts))]
    IN  [messages |-> m2, tools |-> MarkTools(tools)]

\* addCacheControl(messages, tools, isStreaming)
addCacheControl(messages, tools, isStreaming) ==
    IF ~isStreaming THEN [messages |-> messages, tools |-> tools]
    ELSE
    LET sys == WithRole(messages, "system")
        m1  == IF sys = {} THEN messages
               ELSE [messages EXCEPT ![Least(sys)].content = MarkContent(@, 1)]
        usr == WithRole(m1, "user")
        m2  == IF usr = {} THEN m1
               ELSE [m1 EXCEPT ![Greatest(usr)].content =
                                   MarkContent(@, Len(@.parts))]
    IN  [messages |-> m2, tools |-> MarkTools(tools)]

\* `if (reqBody.x) requestParams.x = reqBody.x`
IfTruthy(v) == IF Truthy(v) THEN v ELSE Absent

\* requestParams as handleChatCompletion builds it from reqBody, before
\* executeWithRetry adds the stream members.
buildRequestParams(body, promptId) ==
    LET stream == Truthy(body.stream)
        cached == addCacheControl(body.messages, OrNull(body.tools), stream)
    IN  [model    |-> IF Truthy(body.model) THEN body.model ELSE DEFAULT_MODEL,
         messages |-> cached.messages,
         metadata |-> [sessionId |-> SESSION_ID, promptId |-> promptId,
                       channel |-> "SDK"],
         tools             |-> IF cached.tools.kind = "array"
                               THEN cached.tools ELSE NoTools,
         functions         |-> IfTruthy(body.functions),
         tool_choice       |-> IfTruthy(body.tool_choice),
         function_call     |-> IfTruthy(body.function_call),
         max_tokens        |-> IfTruthy(body.max_tokens),
         temperature       |-> body.temperature,
         top_p             |-> body.top_p,
         stop              |-> IfTruthy(body.stop),
         presence_penalty  |-> body.presence_penalty,
         frequency_penalty |-> body.frequency_penalty,
         stream            |-> Absent,
         stream_options    |-> Absent]

\* ------------------------------------------------------ one request ----


\* A request that has not arrived. bearer is the value after the scheme in
\* its Authorization header (0: no header); pc is the await the handler is
\* suspended at; apiKey and baseURL are the client's; err is the error caught by
\* executeWithRetry while it awaits refreshToken(); chunks are the ids (0:
\* none) of the chunks the upstream stream has delivered, in order;
\* status..ended are the response (`res`), frames what res.write() wrote;
\* aborted is the flag of the 'close' listener. History, for the properties: log is what the handler has
\* done so far, joined the operations in flight when it last called
\* refreshToken().
NewRequest ==
    [pc |-> "new", bearer |-> 0, stream |-> FALSE, isRetry |-> FALSE, apiKey |-> 0,
     baseURL |-> <<>>, awaiting |-> 0, err |-> NoError,
     status |-> 0, body |-> NoBody, retryAfter |-> 0, frames |-> <<>>,
     chunks |-> <<>>, headersSent |-> FALSE, ended |-> FALSE,
     aborted |-> FALSE, log |-> <<>>, joined |-> {},
     reqBody |-> NoBody, promptId |-> 0, requestParams |-> NoBody,
     calls |-> <<>>, response |-> NoBody]

\* An entry of the history: "token" (ensureValidToken() yielded n), "send"
\* (create() called with apiKey n and baseURL base), "fail" (it threw: status
\* n, Retry-After ra and body up of the upstream's answer), "refreshed" (the
\* catch block's refreshToken() yielded n), "close" (the inbound connection
\* closed when n frames had been written).
Ev(kind, n) == [ev |-> kind, n |-> n, base |-> <<>>, ra |-> 0, up |-> NoBody]

requestId(r) == 100 + r

\* res.status(st).json(b): the whole response, sent and ended.
Json(rq, st, b) ==
    [rq EXCEPT !.status = st, !.body = b, !.headersSent = TRUE, !.ended = TRUE]

\* The handler returns: its client, its isRetry and the error it caught are
\* gone with it. Of the history, the steps and the upstream's statuses are
\* kept; the token values are kept only while the handler runs.
Return(rq) ==
    [rq EXCEPT !.pc = "done", !.apiKey = 0, !.baseURL = <<>>, !.isRetry = FALSE,
               !.err = NoError, !.awaiting = 0,
               !.joined = {},
               !.log = [k \in DOMAIN rq.log |->
                          [rq.log[k] EXCEPT
                             !.base = <<>>,
                             !.n = IF rq.log[k].ev \in {"fail", "close"} \/ @ = 0
                                   THEN @ ELSE 1]]]

\* crypto.randomUUID(): a value no earlier call returned.
Drawn ==
    {SESSION_ID} \cup { req[q].promptId : q \in Requests }
        \cup UNION { { req[q].calls[k].metadata.promptId :
                         k \in 1 .. Len(req[q].calls) } : q \in Requests }
randomUUID == Least((1 .. 2 * NumRequests + 1) \ Drawn)

\* `requestParams.stream = true; requestParams.stream_options = {...}` of a
\* streaming request, on the requestParams of a request that has a body.
WithStream(rq) ==
    IF rq.requestParams # NoBody /\ rq.stream
    THEN [rq.requestParams EXCEPT !.stream = "true",
                                  !.stream_options = "{include_usage:true}"]
    ELSE rq.requestParams

\* The send that builds its metadata anew, with a promptId drawn for the call.
SendNewPromptId(rq) ==
    LET id    == IF rq.calls = <<>> THEN rq.promptId ELSE randomUUID
        p     == IF rq.requestParams = NoBody THEN NoBody
                 ELSE [WithStream(rq) EXCEPT !.metadata.promptId = id]
    IN  [rq EXCEPT !.pc = "sent", !.chunks = <<>>,
                   !.log = Append(@, [Ev("send", rq.apiKey) EXCEPT
                                         !.base = rq.baseURL]),
                   !.requestParams = p,
                   !.calls = IF p = NoBody THEN @ ELSE Append(@, p)]

\* The send that, on a resend, runs the annotation over requestParams again,
\* whether the request streams or not.
SendAnnotatedAgain(rq) ==
    LET p0 == WithStream(rq)
        a  == addCacheControlAlways(p0.messages, p0.tools, TRUE)
        p  == IF rq.requestParams = NoBody THEN NoBody
              ELSE IF rq.calls = <<>> THEN p0
              ELSE [p0 EXCEPT !.messages = a.messages,
                              !.tools = IF a.tools.kind = "array" THEN a.tools
                                        ELSE NoTools]
    IN  [rq EXCEPT !.pc = "sent", !.chunks = <<>>,
                   !.log = Append(@, [Ev("send", rq.apiKey) EXCEPT
                                         !.base = rq.baseURL]),
                   !.requestParams = p,
                   !.calls = IF p = NoBody THEN @ ELSE Append(@, p)]

\* client.chat.completions.create(requestParams) is called: the request is
\* on its way upstream with the client's current apiKey and baseURL, and the
\* call's argument is recorded in calls.
Send(rq) ==
    [rq EXCEPT !.pc = "sent", !.chunks = <<>>,
               !.log = Append(@, [Ev("send", rq.apiKey) EXCEPT
                                     !.base = rq.baseURL]),
               !.requestParams = WithStream(rq),
               !.calls = IF rq.requestParams = NoBody THEN @
                         ELSE Append(@, WithStream(rq))]

\* handleChatCompletion without its `if (!token)` answer: it goes on to build
\* the client and send whatever ensureValidToken() yielded.
afterEnsureValidTokenUnchecked(rq, token, c) ==
    Send([rq EXCEPT !.log = Append(@, Ev("token", token)),
                    !.apiKey = token, !.baseURL = getApiBaseUrl(c)])

\* handleChatCompletion after `await ensureValidToken()` yielded token, with
\* the credentials c of that moment.
afterEnsureValidToken(rq, token, c) ==
    LET rq1 == [rq EXCEPT !.log = Append(@, Ev("token", token))]
    IN  IF token = 0
        THEN Return(Json(rq1, STATUS_INTERNAL,
                  [error |-> [message |-> "No valid OAuth token. Run: qwen login",
                              type |-> "auth_error"]]))
        ELSE Send([rq1 EXCEPT !.apiKey = token, !.baseURL = getApiBaseUrl(c)])

\* "Handle other errors" answering 500 whatever the error's status is.
handleOtherErrorsAlways500(rq, e) ==
    IF ~rq.headersSent
    THEN Return(Json(rq, STATUS_INTERNAL,
                [error |-> [message |-> e.message,
                            type |-> IF e.type # "" THEN e.type ELSE "api_error",
                            code |-> IF e.code # "" THEN e.code ELSE "null"]]))
    ELSE Return([rq EXCEPT !.ended = TRUE])

\* "Handle other errors" answering with the upstream's own body.
handleOtherErrorsVerbatim(rq, e) ==
    IF ~rq.headersSent
    THEN Return(Json(rq, IF e.status # 0 THEN e.status ELSE STATUS_INTERNAL,
                     e.upstream))
    ELSE Return([rq EXCEPT !.ended = TRUE])

\* "Handle other errors" without its `else if (!res.writableEnded) res.end()`:
\* with the headers sent the handler returns and leaves the response open.
handleOtherErrorsNoEnd(rq, e) ==
    LET status     == IF e.status # 0 THEN e.status ELSE STATUS_INTERNAL
        retryAfter == IF status = STATUS_TOO_MANY
                      THEN HeadersIndex(e.headers, "retry-after") ELSE 0
    IN  IF ~rq.headersSent
        THEN Return([Json(rq, status,
                   [error |-> [message |-> e.message,
                               type |-> IF e.type # "" THEN e.type ELSE "api_error",
                               code |-> IF e.code # "" THEN e.code ELSE "null"]])
                EXCEPT !.retryAfter = retryAfter])
        ELSE [rq EXCEPT !.pc = "returned"]

\* The tail of the catch block ("Handle other errors") for the error e.
handleOtherErrors(rq, e) ==
    LET status     == IF e.status # 0 THEN e.status ELSE STATUS_INTERNAL
        retryAfter == IF status = STATUS_TOO_MANY
                      THEN HeadersIndex(e.headers, "retry-after") ELSE 0
    IN  IF ~rq.headersSent
        THEN Return([Json(rq, status,
                   [error |-> [message |-> e.message,
                               type |-> IF e.type # "" THEN e.type ELSE "api_error",
                               code |-> IF e.code # "" THEN e.code ELSE "null"]])
                EXCEPT !.retryAfter = retryAfter])
        ELSE Return([rq EXCEPT !.ended = TRUE])

\* The catch block calling executeWithRetry() again without isRetry = true.
afterRetryRefreshNotMarked(rq, newToken, c) ==
    LET rq1 == [rq EXCEPT !.log = Append(@, Ev("refreshed", newToken))]
    IN  IF newToken # 0
        THEN Send([rq1 EXCEPT !.apiKey = newToken, !.baseURL = getApiBaseUrl(c)])
        ELSE handleOtherErrors(rq1, rq.err)

\* The catch block retrying without `client.apiKey = newToken`.
afterRetryRefreshOldKey(rq, newToken, c) ==
    LET rq1 == [rq EXCEPT !.log = Append(@, Ev("refreshed", newToken))]
    IN  IF newToken # 0
        THEN Send([rq1 EXCEPT !.baseURL = getApiBaseUrl(c), !.isRetry = TRUE])
        ELSE handleOtherErrors(rq1, rq.err)

\* The catch block after `await refreshToken()` yielded newToken, with the
\* credentials c of that moment; rq.err is the error that was caught.
afterRetryRefresh(rq, newToken, c) ==
    LET rq1 == [rq EXCEPT !.log = Append(@, Ev("refreshed", newToken))]
    IN  IF newToken # 0
        THEN Send([rq1 EXCEPT !.apiKey = newToken, !.baseURL = getApiBaseUrl(c),
                              !.isRetry = TRUE])
        ELSE handleOtherErrors(rq1, rq.err)

\* A continuation of the handler that awaited the promise p of refreshToken():
\* it runs when p is resolved, with p's value.
resume(rq, value, c) ==
    LET rq1 == [rq EXCEPT !.awaiting = 0]
    IN  IF rq.pc = "awaitToken" THEN afterEnsureValidToken(rq1, value, c)
        ELSE afterRetryRefresh(rq1, value, c)

\* `await refreshToken()` at position pc ("awaitToken" in ensureValidToken,
\* "awaitRetry" in the catch block): the shared state after the call and the
\* request, suspended on a pending promise or continued with the value of a
\* promise that is already resolved.
awaitRefresh(rq, pc, c, os, lk) ==
    LET R   == refreshToken(c, os, lk)
        rq1 == [rq EXCEPT !.pc = pc, !.joined = InFlight(os),
                          !.awaiting = R.p]
    IN  [creds |-> R.creds, ops |-> R.ops, lock |-> R.lock,
         rq |-> IF R.ops[R.p].pending THEN rq1
                ELSE resume(rq1, R.ops[R.p].value, R.creds)]

\* The catch block that refreshes and retries after any error of a first
\* attempt, whatever its status.
catchAnyError(rq, e, c, os, lk) ==
    LET rq1 == [rq EXCEPT !.log = Append(@, [Ev("fail", e.status) EXCEPT
                                               !.ra = e.headers.retry_after,
                                               !.up = e.upstream])]
    IN  IF ~rq.isRetry
        THEN awaitRefresh([rq1 EXCEPT !.err = e], "awaitRetry", c, os, lk)
        ELSE [creds |-> c, ops |-> os, lock |-> lk,
              rq |-> handleOtherErrors(rq1, e)]

\* The catch block of executeWithRetry for the error e.
catch(rq, e, c, os, lk) ==
    LET rq1 == [rq EXCEPT !.log = Append(@, [Ev("fail", e.status) EXCEPT
                                               !.ra = e.headers.retry_after,
                                               !.up = e.upstream])]
    IN  IF ~rq.isRetry /\ isAuthError(e)
        THEN awaitRefresh([rq1 EXCEPT !.err = e], "awaitRetry", c, os, lk)
        ELSE [creds |-> c, ops |-> os, lock |-> lk,
              rq |-> handleOtherErrors(rq1, e)]

\* ---------------------------------------------------------- actions ----

\* The state after construction, in an environment that stays what it is for
\* the run: the credentials file of a login or none, a disk that takes writes
\* or not, what the provider answers an exchange with (with a disk that takes
\* no write the answer's other members go nowhere: one answer stands for all).
Init ==
    /\ now = 0
    /\ file \in {FileMissing, Stored(LoginRecord)}
    /\ credentials = Null
    /\ refreshLock = 0
    /\ ops = <<>>
    /\ started = FALSE
    /\ routerKey = 9
    /\ writable \in BOOLEAN
    /\ tokenData \in TokenResponses
    /\ (writable \/ tokenData = FullResponse)
    /\ req = [r \in Requests |-> NewRequest]

\* Every continuation suspended on promise p runs, with its value v.
Resolved(p, v, c) ==
    [r \in Requests |->
        IF req[r].pc \in {"awaitToken", "awaitRetry"} /\ req[r].awaiting = p
        THEN resume(req[r], v, c) ELSE req[r]]

\* The listen callback: checkAuthStatus(). What it returns is only printed.
Startup ==
    /\ ~started
    /\ started' = TRUE
    /\ LET c == readCredentials(credentials)
       IN  IF c = Null \/ c.access_token = 0 \/ ~WithinMargin(c)
           THEN /\ credentials' = c
                /\ UNCHANGED <<ops, refreshLock>>
           ELSE LET R == refreshToken(c, ops, refreshLock)
                IN  /\ credentials' = R.creds
                    /\ ops' = R.ops
                    /\ refreshLock' = R.lock
    /\ UNCHANGED <<now, file, routerKey, writable, tokenData, req>>

\* Time passes. The clock is followed while a reading of it can still decide
\* something: once the cached record is within the margin it stays within it,
\* whatever the time, until a refresh replaces it.
Tick ==
    /\ now < MaxTicks * TickMs
    /\ IF credentials = Null THEN TRUE ELSE ~WithinMargin(credentials)
    /\ now' = now + TickMs
    /\ UNCHANGED <<file, credentials, refreshLock, ops, started, routerKey,
                   writable, tokenData, req>>

\* The API Key Validation of the POST handler, with a header that fails
\* only when it is there and wrong.
routerKeyRejectsPresentOnly(bearer) ==
    routerKey # 0 /\ bearer # 0 /\ bearer # routerKey

\* The API Key Validation of the POST handler: ROUTER_API_KEY is set and
\* authHeader.split(' ')[1] (undefined without header) is not it.
routerKeyRejects(bearer) ==
    routerKey # 0 /\ bearer # routerKey

\* The POST handler for request r, arriving with the bearer value of its
\* Authorization header (0: no header) and its stream flag; the handler runs
\* up to its first pending await.
Post(r, bearer, stream) ==
    /\ started
    /\ req[r].pc = "new"
    /\ \A q \in Requests \ {Observed} : q < r => req[q].pc # "new"
    /\ LET rq == [req[r] EXCEPT !.stream = stream, !.bearer = bearer] IN
       IF routerKeyRejects(bearer)
       THEN /\ req' = [req EXCEPT ![r] =
                  Return(Json(rq, STATUS_UNAUTHORIZED,
                       [error |-> [message |->
                           "Unauthorized: Invalid Router API Key"]]))]
            /\ UNCHANGED <<credentials, ops, refreshLock>>
       ELSE LET c     == LoadIfNull(credentials)
                token == getAccessToken(c)
            IN  IF token # 0
                THEN /\ req' = [req EXCEPT ![r] =
                                   afterEnsureValidToken(rq, token, c)]
                     /\ credentials' = c
                     /\ UNCHANGED <<ops, refreshLock>>
                ELSE LET A == awaitRefresh(rq, "awaitToken", c, ops,
                                           refreshLock)
                     IN  /\ Len(A.ops) <= MaxOps
                         /\ req' = [req EXCEPT ![r] = A.rq]
                         /\ credentials' = A.creds
                         /\ ops' = A.ops
                         /\ refreshLock' = A.lock
    /\ UNCHANGED <<now, file, started, routerKey, writable, tokenData>>

\* POST /v1/chat/completions arrives as request r, with any of the bearer
\* values and stream flags r can have.
PostChatCompletions(r) ==
    \E bearer \in BearersOf(r), stream \in StreamsOf(r) :
        Post(r, bearer, stream)

\* A successful exchange that assigns the new access token into the cached
\* object and leaves its other members as they were.
RefreshSucceedsTorn(p) ==
    /\ p \in InFlight(ops)
    /\ LET nc == newCreds([tokenData EXCEPT !.access_token = FreshToken(p)],
                          credentials)
           c  == IF writable
                 THEN [credentials EXCEPT !.access_token = nc.access_token]
                 ELSE credentials
       IN  /\ file' = IF writable THEN Stored(nc) ELSE file
           /\ credentials' = c
           /\ ops' = [ops EXCEPT ![p] = [@ EXCEPT !.pending = FALSE,
                                                 !.value = nc.access_token,
                                                 !.status = STATUS_OK]]
           /\ req' = Resolved(p, nc.access_token, c)
    /\ refreshLock' = 0
    /\ UNCHANGED <<now, started, routerKey, writable, tokenData>>

\* The token exchange of operation p is answered with response.data;
\* writeCredentials(newCreds) succeeds, or its writeFileSync throws inside its
\* own try and `credentials` keeps the old record. The operation returns
\* newCreds.access_token either way, its finally clears refreshLock, and
\* everything awaiting the promise continues.
RefreshSucceeds(p) ==
    /\ p \in InFlight(ops)
    /\ LET nc == newCreds([tokenData EXCEPT !.access_token = FreshToken(p)],
                          credentials)
           c  == IF writable THEN nc ELSE credentials
       IN  /\ file' = IF writable THEN Stored(nc) ELSE file
           /\ credentials' = c
           /\ ops' = [ops EXCEPT ![p] = [@ EXCEPT !.pending = FALSE,
                                                 !.value = nc.access_token,
                                                 !.status = STATUS_OK]]
           /\ req' = Resolved(p, nc.access_token, c)
    /\ refreshLock' = 0
    /\ UNCHANGED <<now, started, routerKey, writable, tokenData>>

\* The token exchange of operation p fails (a status, or no response): the
\* operation logs, returns null, and its finally clears refreshLock.
RefreshFails(p) ==
    /\ p \in InFlight(ops)
    /\ \E status \in RefreshFailureStatuses :
         /\ ops' = [ops EXCEPT ![p] = [@ EXCEPT !.pending = FALSE, !.value = 0]]
         /\ req' = Resolved(p, 0, credentials)
    /\ refreshLock' = 0
    /\ UNCHANGED <<now, file, credentials, started, routerKey, writable, tokenData>>

\* The choices member of an upstream completion: an array or not there. A
\* choice has its index, its finish_reason, the message's content and the
\* message's tool_calls, in order (<<>>: none).
Choices(cs) == [kind |-> "array", list |-> cs]
NoChoices   == [kind |-> "undefined", list |-> <<>>]
Choice(i, reason, content, calls) ==
    [index |-> i, finish_reason |-> reason, content |-> content,
     tool_calls |-> calls]

\* The usage member of an upstream completion: an object or not there.
Usage(p, c) ==
    [kind |-> "object", prompt_tokens |-> p, completion_tokens |-> c,
     total_tokens |-> p + c]
NoUsage == [kind |-> "undefined", prompt_tokens |-> 0, completion_tokens |-> 0,
            total_tokens |-> 0]

\* What create() resolves to without stream: id and created are numbers (0:
\* not there), model and system_fingerprint strings or Absent.
Completion(id, created, model, choices, usage, fp) ==
    [id |-> id, created |-> created, model |-> model, choices |-> choices,
     usage |-> usage, system_fingerprint |-> fp]

\* The ordinary completion: every member there, one choice that stopped.
UPSTREAM_ID == 7
UPSTREAM_CREATED == 1700
UPSTREAM_MODEL == "qwen3-coder-plus"
PlainCompletion ==
    Completion(UPSTREAM_ID, UPSTREAM_CREATED, UPSTREAM_MODEL,
               Choices(<< Choice(0, "stop", "a", <<>>) >>), Usage(3, 4), "fp")

\* `const model = reqBody.model || DEFAULT_MODEL`
modelOf(rq) ==
    IF rq.reqBody = NoBody THEN DEFAULT_MODEL
    ELSE IF Truthy(rq.reqBody.model) THEN rq.reqBody.model ELSE DEFAULT_MODEL

\* `data` passing response.usage on as it is.
dataUsageAsIs(response, rid, model) ==
    [id      |-> IF response.id # 0 THEN response.id ELSE rid,
     object  |-> "chat.completion",
     created |-> IF response.created # 0 THEN response.created
                 ELSE now \div MS_PER_SECOND,
     model   |-> IF Truthy(response.model) THEN response.model ELSE model,
     choices |-> IF response.choices.kind = "array" THEN response.choices
                 ELSE Choices(<<>>),
     usage   |-> response.usage,
     system_fingerprint |-> IF Truthy(response.system_fingerprint)
                            THEN response.system_fingerprint ELSE "null"]

\* `data`, the envelope res.json() sends for the upstream's response, with the
\* requestId and the model of the request.
data(response, rid, model) ==
    [id      |-> IF response.id # 0 THEN response.id ELSE rid,
     object  |-> "chat.completion",
     created |-> IF response.created # 0 THEN response.created
                 ELSE now \div MS_PER_SECOND,
     model   |-> IF Truthy(response.model) THEN response.model ELSE model,
     choices |-> IF response.choices.kind = "array" THEN response.choices
                 ELSE Choices(<<>>),
     usage   |-> IF response.usage.kind = "object" THEN response.usage
                 ELSE Usage(0, 0),
     system_fingerprint |-> IF Truthy(response.system_fingerprint)
                            THEN response.system_fingerprint ELSE "null"]

\* create() resolves the non-streaming send of r with response: the envelope
\* is sent with res.json(data).
Reply(r, response) ==
    /\ req[r].pc = "sent"
    /\ ~req[r].stream
    /\ req' = [req EXCEPT ![r] =
                  Return(Json([req[r] EXCEPT !.response = response], STATUS_OK,
                              data(response, requestId(r), modelOf(req[r]))))]
    /\ UNCHANGED <<now, file, credentials, refreshLock, ops, started,
                   routerKey, writable, tokenData>>

\* The upstream answers the non-streaming send of r with a completion.
UpstreamCompletes(r) == Reply(r, PlainCompletion)

\* What res.setHeader() throws once the headers have been sent.
HeadersSentError ==
    [status |-> 0,
     message |-> "Cannot set headers after they are sent to the client",
     type |-> "", code |-> "ERR_HTTP_HEADERS_SENT",
     headers |-> NoHeaders, upstream |-> NoBody]

\* The upstream opens the stream of r: the SSE headers are set (not sent).
\* When a frame of an earlier attempt has been written, the headers are out
\* and res.setHeader() throws into the catch block.
UpstreamStreams(r) ==
    /\ req[r].pc = "sent"
    /\ req[r].stream
    /\ IF ~req[r].headersSent
       THEN /\ req' = [req EXCEPT ![r].pc = "streaming"]
            /\ UNCHANGED <<credentials, refreshLock, ops>>
       ELSE LET C == catch(req[r], HeadersSentError, credentials, ops,
                           refreshLock)
            IN  /\ Len(C.ops) <= MaxOps
                /\ req' = [req EXCEPT ![r] = C.rq]
                /\ credentials' = C.creds
                /\ ops' = C.ops
                /\ refreshLock' = C.lock
    /\ UNCHANGED <<now, file, started, routerKey, writable, tokenData>>

\* create() of r throws e.
Throws(r, e) ==
    /\ req[r].pc = "sent"
    /\ LET C == catch(req[r], e, credentials, ops, refreshLock)
       IN  /\ Len(C.ops) <= MaxOps
           /\ req' = [req EXCEPT ![r] = C.rq]
           /\ credentials' = C.creds
           /\ ops' = C.ops
           /\ refreshLock' = C.lock
    /\ UNCHANGED <<now, file, started, routerKey, writable, tokenData>>

\* create() of r throws one of the errors r's send can fail with.
UpstreamFails(r) == \E e \in FailuresOf(r) : Throws(r, e)

\* The frame res.write() writes for the k-th chunk of r's stream, whose
\* upstream id is id (0: none): `data: {id: chunk.id || requestId, ...}`.
ChunkFrame(r, k, id) ==
    [kind |-> "chunk", seq |-> k, id |-> IF id # 0 THEN id ELSE requestId(r)]

\* `data: [DONE]`
DoneFrame == [kind |-> "done", seq |-> 0, id |-> 0]

\* One chunk of r's stream arrives, with the upstream's id for it (0: none),
\* and is written as a frame.
StreamChunk(r) ==
    /\ req[r].pc = "streaming"
    /\ Len(req[r].chunks) < MaxChunks
    /\ \E id \in {0, 1} :
         req' = [req EXCEPT ![r].chunks = Append(@, id),
                            ![r].headersSent = TRUE,
                            ![r].status = STATUS_OK,
                            ![r].frames = Append(@,
                                ChunkFrame(r, Len(req[r].chunks) + 1, id))]
    /\ UNCHANGED <<now, file, credentials, refreshLock, ops, started,
                   routerKey, writable, tokenData>>

\* r's stream ends without res.write('data: [DONE]').
StreamEndsNoDone(r) ==
    /\ req[r].pc = "streaming"
    /\ req' = [req EXCEPT ![r] =
                  Return([@ EXCEPT !.headersSent = TRUE, !.status = STATUS_OK,
                                   !.ended = TRUE])]
    /\ UNCHANGED <<now, file, credentials, refreshLock, ops, started,
                   routerKey, writable, tokenData>>

\* r's stream ends: the [DONE] frame is written and the response ended.
StreamEnds(r) ==
    /\ req[r].pc = "streaming"
    /\ req' = [req EXCEPT ![r] =
                  Return([@ EXCEPT !.headersSent = TRUE, !.status = STATUS_OK,
                                   !.ended = TRUE,
                                   !.frames = Append(@, DoneFrame)])]
    /\ UNCHANGED <<now, file, credentials, refreshLock, ops, started,
                   routerKey, writable, tokenData>>

\* The iteration of r's stream throws e.
Breaks(r, e) ==
    /\ req[r].pc = "streaming"
    /\ LET C == catch(req[r], e, credentials, ops, refreshLock)
       IN  /\ Len(C.ops) <= MaxOps
           /\ req' = [req EXCEPT ![r] = C.rq]
           /\ credentials' = C.creds
           /\ ops' = C.ops
           /\ refreshLock' = C.lock
    /\ UNCHANGED <<now, file, started, routerKey, writable, tokenData>>

\* The iteration of r's stream throws an error without a response.
StreamFails(r) == \E e \in StreamFailures : Breaks(r, e)

\* The body GET /health answers with in the current state (the members that
\* depend on the credentials).
healthBody ==
    LET c == LoadIfNull(credentials)
    IN  [token_available |-> getAccessToken(c) # 0,
         token_expires   |-> IF c = Null THEN 0 ELSE c.expiry_date,
         api_base        |-> getApiBaseUrl(c)]

\* GET /health that, like checkAuthStatus(), calls refreshToken() when the
\* token is not available.
HealthRefreshes ==
    /\ started
    /\ LET c == LoadIfNull(credentials)
           R == IF getAccessToken(c) # 0
                THEN [creds |-> c, ops |-> ops, lock |-> refreshLock]
                ELSE refreshToken(c, ops, refreshLock)
       IN  /\ Len(R.ops) <= MaxOps
           /\ credentials' = R.creds
           /\ ops' = R.ops
           /\ refreshLock' = R.lock
    /\ UNCHANGED <<now, file, started, routerKey, writable, tokenData, req>>

\* GET /health: it loads the record if none is cached and answers healthBody.
Health ==
    /\ started
    /\ credentials' = LoadIfNull(credentials)
    /\ UNCHANGED <<now, file, refreshLock, ops, started, routerKey, writable,
                   tokenData, req>>

\* The inbound connection of r closes before its response is complete. The
\* 'close' listener is registered once ensureValidToken() has yielded; it sets
\* `aborted`, which nothing reads: the handler, the upstream call and the
\* refresh it may be awaiting go on as they were.
DisconnectCancelsRefresh(r) ==
    /\ req[r].pc \notin {"new", "done"}
    /\ \A k \in DOMAIN req[r].log : req[r].log[k].ev # "close"
    /\ req' = [req EXCEPT ![r].aborted = (req[r].pc # "awaitToken"),
                          ![r].log = Append(@, Ev("close", Len(req[r].frames)))]
    /\ refreshLock' = 0
    /\ ops' = [p \in DOMAIN ops |-> [ops[p] EXCEPT !.pending = FALSE]]
    /\ UNCHANGED <<now, file, credentials, started, routerKey, writable,
                   tokenData>>

Disconnect(r) ==
    /\ req[r].pc \notin {"new", "done"}
    /\ \A k \in DOMAIN req[r].log : req[r].log[k].ev # "close"
    /\ req' = [req EXCEPT ![r].aborted = (req[r].pc # "awaitToken"),
                          ![r].log = Append(@, Ev("close", Len(req[r].frames)))]
    /\ UNCHANGED <<now, file, credentials, refreshLock, ops, started,
                   routerKey, writable, tokenData>>

Next ==
    \/ Startup
    \/ Tick
    \/ Health
    \/ \E r \in Requests : PostChatCompletions(r)
    \/ \E p \in DOMAIN ops : RefreshSucceeds(p)
    \/ \E p \in DOMAIN ops : RefreshFails(p)
    \/ \E r \in Requests : UpstreamCompletes(r)
    \/ \E r \in Requests : UpstreamStreams(r)
    \/ \E r \in Requests : UpstreamFails(r)
    \/ \E r \in Requests : StreamChunk(r)
    \/ \E r \in Requests : StreamEnds(r)
    \/ \E r \in Requests : StreamFails(r)

Spec == Init /\ [][Next]_vars

\* The same server with what its scheduling guarantees: the listen callback
\* runs, time passes, and a token exchange ends (axios gives up after its
\* timeout of 30 s). Nothing makes a request arrive or the upstream answer.
SpecFair ==
    /\ Init /\ [][Next]_vars
    /\ WF_vars(Startup)
    /\ WF_vars(Tick)
    /\ \A p \in 1 .. MaxOps : WF_vars(RefreshSucceeds(p) \/ RefreshFails(p))

\* The relay with callers that may hang up: the observed request's connection
\* can close at any moment between its arrival and the end of its response.
\* The clock stands still: refreshes come from upstream 401/403 answers and
\* from the refreshed token, which is within the margin as soon as it is
\* issued.
InitDisconnect ==
    /\ Init
    /\ file = Stored(LoginRecord) /\ writable /\ tokenData = FullResponse

NextNoTick ==
    \/ Startup
    \/ \E r \in Requests : PostChatCompletions(r)
    \/ \E p \in DOMAIN ops : RefreshSucceeds(p)
    \/ \E p \in DOMAIN ops : RefreshFails(p)
    \/ \E r \in Requests : UpstreamCompletes(r)
    \/ \E r \in Requests : UpstreamStreams(r)
    \/ \E r \in Requests : UpstreamFails(r)
    \/ \E r \in Requests : StreamChunk(r)
    \/ \E r \in Requests : StreamEnds(r)
    \/ \E r \in Requests : StreamFails(r)

NextDisconnect ==
    \/ NextNoTick
    \/ Disconnect(Observed)

SpecDisconnect == InitDisconnect /\ [][NextDisconnect]_vars

\* The relay with and without ROUTER_API_KEY configured.
InitKeys ==
    /\ now = 0
    /\ file = Stored(LoginRecord)
    /\ credentials = Null
    /\ refreshLock = 0
    /\ ops = <<>>
    /\ started = FALSE
    /\ routerKey \in {0, 9}
    /\ writable = TRUE
    /\ tokenData = FullResponse
    /\ req = [r \in Requests |-> NewRequest]

SpecKeys == InitKeys /\ [][NextNoTick]_vars

\* The relay, started with or without a credentials file, with an
\* environment that answers: every token exchange
\* returns or fails, every upstream call returns, opens its stream or fails,
\* and every open stream delivers, ends or breaks. Nothing makes a request
\* arrive.
Answers(r) == UpstreamCompletes(r) \/ UpstreamStreams(r) \/ UpstreamFails(r)
Flows(r)   == StreamChunk(r) \/ StreamEnds(r) \/ StreamFails(r)

InitLive == Init /\ writable /\ tokenData = FullResponse

SpecLive ==
    /\ InitLive /\ [][NextNoTick]_vars
    /\ \A p \in 1 .. MaxOps : WF_vars(RefreshSucceeds(p) \/ RefreshFails(p))
    /\ \A r \in Requests : WF_vars(Answers(r)) /\ WF_vars(Flows(r))

\* ------------------------------------------------ the store's users ----

\* The record a later `qwen login` writes: new tokens, usable now.
ReloginRecord ==
    [LoginRecord EXCEPT !.access_token = LoginRecord.access_token + 1,
                        !.refresh_token = FullResponse.refresh_token + 1]

\* `qwen login` is run beside the server and rewrites the credentials file.
ExternalLogin ==
    /\ file # Stored(ReloginRecord)
    /\ file' = Stored(ReloginRecord)
    /\ UNCHANGED <<now, credentials, refreshLock, ops, started, routerKey,
                   writable, tokenData, req>>

\* The process is stopped and started again: the module is loaded anew, its
\* connections and pending promises are gone, the file is what it was.
Restart ==
    /\ started
    /\ credentials' = Null
    /\ refreshLock' = 0
    /\ ops' = <<>>
    /\ started' = FALSE
    /\ req' = [r \in Requests |-> NewRequest]
    /\ UNCHANGED <<now, file, routerKey, writable, tokenData>>

\* A failing token exchange whose operation yields the status of a rejected
\* refresh token (400, 401) to its callers, and null otherwise.
RefreshFailsDistinct(p) ==
    /\ p \in InFlight(ops)
    /\ \E status \in RefreshFailureStatuses :
         LET v == IF status \in {STATUS_BAD_REQUEST, STATUS_UNAUTHORIZED}
                  THEN status ELSE 0
         IN  /\ ops' = [ops EXCEPT ![p] = [@ EXCEPT !.pending = FALSE,
                                                  !.value = v,
                                                  !.status = status]]
             /\ req' = Resolved(p, v, credentials)
    /\ refreshLock' = 0
    /\ UNCHANGED <<now, file, credentials, started, routerKey, writable, tokenData>>

\* The token exchange of operation p fails with a status (or no response),
\* as in RefreshFails; the status the catch block logs is kept with the
\* operation (400 and 401 add the line "Refresh token expired").
RefreshFailsWithStatus(p) ==
    /\ p \in InFlight(ops)
    /\ \E status \in RefreshFailureStatuses :
         /\ ops' = [ops EXCEPT ![p] = [@ EXCEPT !.pending = FALSE, !.value = 0,
                                              !.status = status]]
         /\ req' = Resolved(p, 0, credentials)
    /\ refreshLock' = 0
    /\ UNCHANGED <<now, file, credentials, started, routerKey, writable, tokenData>>

\* The relay over every state of the store: no file, an unparsable file or
\* the record of a login, a disk that takes writes or not, a login that is
\* run again while the server is up, and restarts of the server.
InitStore ==
    /\ now = 0
    /\ file \in {FileMissing, FileCorrupt, Stored(LoginRecord)}
    /\ credentials = Null
    /\ refreshLock = 0
    /\ ops = <<>>
    /\ started = FALSE
    /\ routerKey = 0
    /\ writable \in BOOLEAN
    /\ tokenData \in TokenResponses
    /\ req = [r \in Requests |-> NewRequest]

\* A plain request arrives: no Authorization header, not streaming.
PostPlain(r) == Post(r, 0, FALSE)

\* The upstream answers r's send with 401.
UpstreamRejects(r) ==
    \E b \in UpstreamErrorBodies(STATUS_UNAUTHORIZED) :
        Throws(r, ApiError(STATUS_UNAUTHORIZED, b, 0))

NextStore ==
    \/ Startup
    \/ Health
    \/ ExternalLogin
    \/ Restart
    \/ \E r \in Requests : PostPlain(r)
    \/ \E p \in DOMAIN ops : RefreshSucceeds(p)
    \/ \E p \in DOMAIN ops : RefreshFailsWithStatus(p)
    \/ \E r \in Requests : UpstreamCompletes(r)
    \/ \E r \in Requests : UpstreamRejects(r)

SpecStore == InitStore /\ [][NextStore]_vars

\* ------------------------------------------------------ token expiry ----

\* A record of a login whose expiry_date member is not there.
NoExpiryRecord == [LoginRecord EXCEPT !.expiry_date = 0]

\* A server started on no file, on the record of a login or on one without
\* expiry_date, with a clock that runs and plain requests.
InitExpiry ==
    /\ now = 0
    /\ file \in {FileMissing, Stored(LoginRecord), Stored(NoExpiryRecord)}
    /\ credentials = Null
    /\ refreshLock = 0
    /\ ops = <<>>
    /\ started = FALSE
    /\ routerKey = 0
    /\ writable = TRUE
    /\ tokenData \in TokenResponses
    /\ req = [r \in Requests |-> NewRequest]

NextExpiry ==
    \/ Startup
    \/ Tick
    \/ Health
    \/ \E r \in Requests : PostPlain(r)
    \/ \E p \in DOMAIN ops : RefreshSucceeds(p)
    \/ \E p \in DOMAIN ops : RefreshFails(p)
    \/ \E r \in Requests : UpstreamCompletes(r)

SpecExpiry == InitExpiry /\ [][NextExpiry]_vars

\* ------------------------------------------------ errors in mid-stream ----

\* What the iteration of an upstream stream can throw into the catch block:
\* an error without a response, or one that carries the status 401.
MidStreamFailures ==
    StreamFailures
        \cup { ApiError(STATUS_UNAUTHORIZED, b, 0) :
                 b \in UpstreamErrorBodies(STATUS_UNAUTHORIZED) }

\* A server on the record of a login, without router key, whose requests all
\* stream.
InitMidStream ==
    /\ now = 0
    /\ file = Stored(LoginRecord)
    /\ credentials = Null
    /\ refreshLock = 0
    /\ ops = <<>>
    /\ started = FALSE
    /\ routerKey = 0
    /\ writable = TRUE
    /\ tokenData \in TokenResponses
    /\ req = [r \in Requests |-> NewRequest]

PostStreaming(r) == Post(r, 0, TRUE)
StreamThrows(r) == \E e \in MidStreamFailures : Breaks(r, e)

NextMidStream ==
    \/ Startup
    \/ \E r \in Requests : PostStreaming(r)
    \/ \E p \in DOMAIN ops : RefreshSucceeds(p)
    \/ \E p \in DOMAIN ops : RefreshFails(p)
    \/ \E r \in Requests : UpstreamStreams(r)
    \/ \E r \in Requests : StreamChunk(r)
    \/ \E r \in Requests : StreamEnds(r)
    \/ \E r \in Requests : StreamThrows(r)

SpecMidStream == InitMidStream /\ [][NextMidStream]_vars

\* ------------------------------------------- requests with a body ----

SeqsUpTo(S, n) == UNION { [1 .. k -> S] : k \in 0 .. n }

\* The contents and messages of the bodies: a string, an empty array, an
\* array of two parts, null; system and user messages with each of them.
Contents ==
    { Str("a"), Arr(<<>>), Arr(<< Part("a"), Part("b") >>), NullContent }
Messages ==
    [role : {"system", "user"}, content : Contents]
        \cup { [role |-> "assistant", content |-> Str("a")] }
ToolLists ==
    { NoTools, NullTools }
        \cup { Tools([k \in 1 .. n |-> Tool(k)]) : n \in 0 .. MaxTools }

\* A body with one user message and nothing else.
PlainBody ==
    [model |-> Absent, messages |-> << [role |-> "user", content |-> Str("a")] >>,
     tools |-> NoTools, stream |-> Absent,
     functions |-> Absent, tool_choice |-> Absent, function_call |-> Absent,
     max_tokens |-> Absent, temperature |-> Absent, top_p |-> Absent,
     stop |-> Absent, presence_penalty |-> Absent,
     frequency_penalty |-> Absent]

\* Bodies that differ in their messages, tools and stream flag.
MessageBodies ==
    { [PlainBody EXCEPT !.messages = m, !.tools = t, !.stream = st] :
        m \in SeqsUpTo(Messages, MaxMessages), t \in ToolLists,
        st \in {Absent, "true"} }

\* Bodies that differ in their generation parameters: each absent, present
\* with a falsy value, or present with a truthy one.
ParamBodies ==
    { [PlainBody EXCEPT !.functions = fn, !.tool_choice = tc,
                        !.function_call = fc, !.max_tokens = mt, !.stop = sp,
                        !.temperature = te, !.top_p = tp,
                        !.presence_penalty = pp, !.frequency_penalty = fp] :
        fn \in {Absent, "null", "[f]"}, tc \in {Absent, "''", "auto"},
        fc \in {Absent, "null", "auto"}, mt \in {Absent, "0", "16"},
        sp \in {Absent, "''", "END"}, te \in {Absent, "0", "0.7"},
        tp \in {Absent, "0"}, pp \in {Absent, "0"},
        fp \in {Absent, "null"} }

\* The resource_url values a credentials record can carry (<<>>: none).
Hints ==
    { <<>>, PortalHint, <<"https://", "portal.qwen.ai">>,
      <<"http://", "portal.qwen.ai">>, <<"portal.qwen.ai", "/v1">>,
      <<"httpd.qwen.ai">> }

\* The server is up with the record of a login cached and usable, and no
\* router key. Either one request is due, with any of the bodies, or every
\* request is due with a plain body, under any of the hints.
InitBody ==
    /\ now = 0
    /\ refreshLock = 0
    /\ ops = <<>>
    /\ started = TRUE
    /\ routerKey = 0
    /\ writable = TRUE
    /\ tokenData = FullResponse
    /\ \/ /\ credentials = LoginRecord
          /\ \E b \in MessageBodies \cup ParamBodies :
               req = [r \in Requests |->
                        IF r = Observed THEN [NewRequest EXCEPT !.reqBody = b]
                        ELSE NewRequest]
       \/ /\ \E h \in Hints :
               credentials = [LoginRecord EXCEPT !.resource_url = h]
          /\ \E st \in {Absent, "true"} :
               req = [r \in Requests |->
                        [NewRequest EXCEPT
                           !.reqBody = [PlainBody EXCEPT !.stream = st]]]
    /\ file = Stored(credentials)

\* The handler with an addCacheControl that annotates the caller's messages
\* where they are, instead of copies of them.
handleChatCompletionInPlace(r) ==
    /\ started
    /\ req[r].pc = "new"
    /\ req[r].reqBody # NoBody
    /\ ~routerKeyRejects(0)
    /\ LET c        == LoadIfNull(credentials)
           token    == getAccessToken(c)
           promptId == randomUUID
           params   == buildRequestParams(req[r].reqBody, promptId)
           rq       == [req[r] EXCEPT
                          !.stream = Truthy(req[r].reqBody.stream),
                          !.promptId = promptId,
                          !.requestParams = params,
                          !.reqBody.messages = params.messages]
       IN  /\ token # 0
           /\ req' = [req EXCEPT ![r] = afterEnsureValidToken(rq, token, c)]
           /\ credentials' = c
    /\ UNCHANGED <<now, file, ops, refreshLock, started, routerKey, writable,
                   tokenData>>

\* POST /v1/chat/completions arrives as request r with the body reqBody and
\* passes the key check; ensureValidToken() yields the cached token, and
\* handleChatCompletion builds its client and requestParams and sends.
handleChatCompletion(r) ==
    /\ started
    /\ req[r].pc = "new"
    /\ req[r].reqBody # NoBody
    /\ ~routerKeyRejects(0)
    /\ LET c        == LoadIfNull(credentials)
           token    == getAccessToken(c)
           promptId == randomUUID
           rq       == [req[r] EXCEPT
                          !.stream = Truthy(req[r].reqBody.stream),
                          !.promptId = promptId,
                          !.requestParams =
                              buildRequestParams(req[r].reqBody, promptId)]
       IN  /\ token # 0
           /\ req' = [req EXCEPT ![r] = afterEnsureValidToken(rq, token, c)]
           /\ credentials' = c
    /\ UNCHANGED <<now, file, ops, refreshLock, started, routerKey, writable,
                   tokenData>>

\* The upstream answers r's first send with 401; the catch block's
\* refreshToken() starts an exchange, which succeeds, and the handler sends a
\* second time.
ResendAfterAuthError(r) ==
    /\ req[r].pc = "sent"
    /\ ~req[r].isRetry
    /\ refreshLock = 0
    /\ \E b \in UpstreamErrorBodies(STATUS_UNAUTHORIZED) :
         LET e  == ApiError(STATUS_UNAUTHORIZED, b, 0)
             C  == catch(req[r], e, credentials, ops, refreshLock)
             p  == C.rq.awaiting
             nc == newCreds([tokenData EXCEPT !.access_token = FreshToken(p)],
                            C.creds)
         IN  /\ req' = [req EXCEPT ![r] = resume(C.rq, nc.access_token, nc)]
             /\ credentials' = nc
             /\ file' = Stored(nc)
             /\ ops' = [C.ops EXCEPT ![p] = [@ EXCEPT !.pending = FALSE,
                                                      !.value = nc.access_token]]
             /\ refreshLock' = 0
    /\ UNCHANGED <<now, started, routerKey, writable, tokenData>>

NextBody ==
    \E r \in Requests :
        \/ handleChatCompletion(r)
        \/ ResendAfterAuthError(r)

SpecBody == InitBody /\ [][NextBody]_vars

\* ------------------------------------------------- the reply envelope ----

\* The completions of the upstream: each member there or not, and up to
\* MaxChoices choices, each one stopped or calling two tools.
MaxChoices == 2

ChoiceLists ==
    UNION { { [i \in 1 .. k |->
                 IF f[i] THEN Choice(i - 1, "tool_calls", "", << "f", "g" >>)
                 ELSE Choice(i - 1, "stop", "a", <<>>)] :
              f \in [1 .. k -> BOOLEAN] } : k \in 0 .. MaxChoices }

Completions ==
    { Completion(id, created, model, choices, usage, fp) :
        id \in {0, UPSTREAM_ID}, created \in {0, UPSTREAM_CREATED},
        model \in {Absent, UPSTREAM_MODEL},
        choices \in {NoChoices} \cup { Choices(cs) : cs \in ChoiceLists },
        usage \in {NoUsage, Usage(3, 4)}, fp \in {Absent, "fp"} }

\* Non-streaming bodies, with or without a model and a tool.
ReplyBodies ==
    { [PlainBody EXCEPT !.model = m, !.tools = t, !.stream = st] :
        m \in {Absent, "vision-model"},
        t \in {NoTools, Tools(<< Tool("f") >>)}, st \in {Absent, "false"} }

\* A server that has started with the record of a login, and one request with
\* one of the bodies.
InitReply ==
    /\ now = 0
    /\ credentials = LoginRecord
    /\ file = Stored(credentials)
    /\ refreshLock = 0
    /\ ops = <<>>
    /\ started = TRUE
    /\ routerKey = 0
    /\ writable = TRUE
    /\ tokenData = FullResponse
    /\ \E b \in ReplyBodies :
         req = [r \in Requests |->
                  IF r = Observed THEN [NewRequest EXCEPT !.reqBody = b]
                  ELSE NewRequest]

\* create() resolves the non-streaming send of r with any of the completions.
Replies(r) == \E response \in Completions : Reply(r, response)

NextReply ==
    \/ Tick
    \/ \E r \in Requests :
        \/ handleChatCompletion(r)
        \/ ResendAfterAuthError(r)
        \/ Replies(r)

SpecReply == InitReply /\ [][NextReply]_vars

\* ------------------------------------------------------- properties ----

Awaiting == {"awaitToken", "awaitRetry"}

Sends(rq) == SelectSeq(rq.log, LAMBDA e : e.ev = "send")
Fails(rq) == SelectSeq(rq.log, LAMBDA e : e.ev = "fail")
Last(q)   == q[Len(q)]

IsAuthStatus(n) == n = STATUS_UNAUTHORIZED \/ n = STATUS_FORBIDDEN

\* What the request's last await of a token (ensureValidToken() or the catch
\* block's refreshToken()) yielded; -1 when there was none.
Outcome(rq) ==
    LET ks == { k \in DOMAIN rq.log : rq.log[k].ev \in {"token", "refreshed"} }
    IN  IF ks = {} THEN -1
        ELSE rq.log[CHOOSE k \in ks : \A j \in ks : j <= k].n

\* No refresh operation has completed yet.
NoneCompleted == \A i \in DOMAIN ops : ops[i].pending

\* C1. Single-flight: at most one token-exchange call is in flight at any
\* time; and while no refresh has completed yet, requests waiting in
\* ensureValidToken() for a token that is within the safety margin have
\* caused exactly one token-exchange call between them.
C1_SingleFlight ==
    /\ Cardinality(InFlight(ops)) <= 1
    /\ (  /\ NoneCompleted
          /\ credentials # Null /\ WithinMargin(credentials)
          /\ \E r \in Requests : req[r].pc = "awaitToken" )
       => Cardinality(Exchanged(ops)) = 1

\* Two requests wait in ensureValidToken() on one token exchange.
C1_Witness ==
    \E r1, r2 \in Requests :
        /\ r1 # r2
        /\ req[r1].pc = "awaitToken" /\ req[r2].pc = "awaitToken"
        /\ NoneCompleted
        /\ Cardinality(Exchanged(ops)) = 1

\* The requests suspended in refreshToken() that called it for operation p or
\* while p was in flight.
CallersOf(p) ==
    { r \in Requests : /\ req[r].pc \in Awaiting
                       /\ (req[r].awaiting = p \/ p \in req[r].joined) }

\* C2. When a refresh operation completes, every caller that called
\* refreshToken() while it was in flight continues, and with the operation's
\* outcome: its new access token, or null when it failed.
C2_SameOutcome ==
    [][ \A p \in DOMAIN ops :
          (ops[p].pending /\ ~ops'[p].pending) =>
              \A r \in CallersOf(p) :
                  /\ req'[r].pc \notin Awaiting
                  /\ Outcome(req'[r]) = ops'[p].value ]_vars

\* Two requests were given the token of one operation, which one of them
\* started and the other joined.
C2_Witness ==
    \E r1, r2 \in Requests, p \in DOMAIN ops :
        /\ r1 # r2
        /\ req[r1].pc = "sent" /\ req[r2].pc = "sent"
        /\ req[r1].joined = {} /\ req[r2].joined = {p}
        /\ ops[p].value # 0
        /\ Outcome(req[r1]) = ops[p].value
        /\ Outcome(req[r2]) = ops[p].value

\* The request was turned away by the router-key check of the POST handler
\* and never entered handleChatCompletion.
RouterRejected(rq) == rq.pc = "done" /\ rq.log = <<>>

\* C3. Fast path: when a request enters handleChatCompletion while the cached
\* record has expiry_date - now > 300000, it is sent with the cached access
\* token and no refresh operation is started or joined (no token exchange).
C3_FastPath ==
    [][ \A r \in Requests :
          (  /\ req[r].pc = "new" /\ req'[r].pc # "new"
             /\ ~RouterRejected(req'[r])
             /\ credentials # Null /\ ~WithinMargin(credentials) )
          => /\ ops' = ops /\ refreshLock' = refreshLock
             /\ req'[r].pc = "sent"
             /\ req'[r].apiKey = credentials.access_token
             /\ req'[r].log[1].n = credentials.access_token ]_vars

\* A request was sent with the cached token and no token exchange has ever
\* been issued.
C3_Witness ==
    \E r \in Requests :
        /\ req[r].pc = "sent" /\ Len(req[r].log) = 2
        /\ credentials # Null /\ ~WithinMargin(credentials)
        /\ req[r].apiKey = credentials.access_token
        /\ ops = <<>>

\* C4. A request makes at most two upstream attempts (one retry); when the
\* second attempt also fails with 401 or 403 nothing more is sent: the request
\* is over and its response carries the status of that second failure.
C4_RetryBound ==
    \A r \in Requests :
        LET S == Sends(req[r])
            F == Fails(req[r])
        IN  /\ Len(S) <= 2
            /\ (Len(F) >= 2 /\ IsAuthStatus(F[1].n) /\ IsAuthStatus(F[2].n))
               => /\ req[r].pc = "done" /\ req[r].ended
                  /\ Last(req[r].log).ev = "fail"
                  /\ req[r].status = F[2].n
                  /\ "error" \in DOMAIN req[r].body

\* A request ended after both of its attempts failed with 401 or 403.
C4_Witness ==
    \E r \in Requests :
        /\ req[r].pc = "done"
        /\ Len(Sends(req[r])) = 2 /\ Len(Fails(req[r])) = 2
        /\ IsAuthStatus(Fails(req[r])[1].n) /\ IsAuthStatus(Fails(req[r])[2].n)
        /\ req[r].status = Fails(req[r])[2].n

\* The order of one request's events: a token is acquired before anything is
\* sent, each send carries the token acquired just before it, and a second
\* send follows, in this order, a 401/403 failure and a refreshToken() that
\* yielded a token.
Ordered(rq) ==
    LET lg == rq.log IN
    /\ lg # <<>> => lg[1].ev = "token"
    /\ \A k \in DOMAIN lg :
         lg[k].ev = "send" =>
           /\ k > 1
           /\ lg[k - 1].ev \in {"token", "refreshed"}
           /\ lg[k - 1].n # 0
           /\ lg[k].n = lg[k - 1].n
           /\ (\E j \in 1 .. (k - 1) : lg[j].ev = "send") =>
                /\ lg[k - 1].ev = "refreshed"
                /\ lg[k - 2].ev = "fail" /\ IsAuthStatus(lg[k - 2].n)
                /\ lg[k - 3].ev = "send"
    /\ (rq.pc # "done" /\ Len(Sends(rq)) = 2)
       => Sends(rq)[2].n # Sends(rq)[1].n

\* C5. Per request: token acquisition precedes the first send; a resend
\* happens only after a 401/403 failure and a refreshToken() that completed
\* successfully, and it carries the refreshed access token and the API base
\* URL recomputed from the credentials as they are at that moment.
C5_Ordering ==
    /\ [](\A r \in Requests : Ordered(req[r]))
    /\ [][ \A r \in Requests :
             (Len(Sends(req[r])) = 1 /\ Len(Sends(req'[r])) = 2) =>
                 /\ Last(req'[r].log).ev = "send"
                 /\ Last(req'[r].log).base = getApiBaseUrl(credentials')
                 /\ req'[r].baseURL = getApiBaseUrl(credentials')
                 /\ req'[r].apiKey = Outcome(req'[r]) ]_vars

\* A request was re-sent with another token and another base URL than its
\* first attempt.
C5_Witness ==
    \E r \in Requests :
        /\ req[r].pc = "sent" /\ Len(Sends(req[r])) = 2
        /\ Sends(req[r])[2].n # Sends(req[r])[1].n
        /\ Sends(req[r])[2].base # Sends(req[r])[1].base
        /\ req[r].apiKey = Sends(req[r])[2].n

\* The body handleChatCompletion answers when ensureValidToken() yields no
\* token.
NoTokenBody ==
    [error |-> [message |-> "No valid OAuth token. Run: qwen login",
                type |-> "auth_error"]]

\* The request's refresh after a 401/403 yielded no token.
RetryRefreshFailed(rq) ==
    \E k \in DOMAIN rq.log : rq.log[k].ev = "refreshed" /\ rq.log[k].n = 0

\* C6. When the refresh started after an upstream 401/403 fails, the caller
\* gets a 500 response with the re-authentication message, the same as when
\* no valid token can be obtained before the first send.
C6_RefreshFailureIs500 ==
    \A r \in Requests :
        (req[r].pc = "done" /\ RetryRefreshFailed(req[r])) =>
            /\ req[r].status = STATUS_INTERNAL
            /\ req[r].body = NoTokenBody

\* C7. With no credential record on disk and none cached, the health report
\* says no token is available, no token exchange is ever issued, and every
\* request that reaches handleChatCompletion is answered 500 without any
\* upstream call.
C7_NoCredentials ==
    (file = FileMissing /\ credentials = Null) =>
        /\ ~healthBody.token_available
        /\ Exchanged(ops) = {}
        /\ \A r \in Requests :
             /\ req[r].pc \in {"new", "done"}
             /\ Sends(req[r]) = <<>>
             /\ (req[r].pc = "done" /\ ~RouterRejected(req[r]))
                => /\ req[r].status = STATUS_INTERNAL
                   /\ req[r].body = NoTokenBody

\* Without a credential record a request was answered 500.
C7_Witness ==
    /\ file = FileMissing /\ credentials = Null
    /\ \E r \in Requests :
         /\ req[r].pc = "done" /\ ~RouterRejected(req[r])
         /\ req[r].status = STATUS_INTERNAL

\* The request's last event is an upstream failure that is not retried:
\* the error the catch block answers with.
TerminalFailure(rq) == rq.log # <<>> /\ Last(rq.log).ev = "fail"

\* C8. An upstream 429 is not retried: it is answered with status 429, and
\* the upstream's Retry-After value, when there is one, is forwarded in the
\* response's Retry-After header.
C8_RetryAfterForwarded ==
    \A r \in Requests :
        (  /\ req[r].pc = "done" /\ Fails(req[r]) # <<>>
           /\ Last(Fails(req[r])).n = STATUS_TOO_MANY )
        => /\ TerminalFailure(req[r])
           /\ req[r].status = STATUS_TOO_MANY
           /\ Last(req[r].log).ra # 0
              => req[r].retryAfter = Last(req[r].log).ra

\* C9. An upstream failure with a status other than 401/403 that arrives
\* before a byte of the response was written is answered with the same
\* status.
C9_StatusPreserved ==
    \A r \in Requests :
        (  /\ req[r].pc = "done" /\ TerminalFailure(req[r])
           /\ Last(req[r].log).n # 0 /\ ~IsAuthStatus(Last(req[r].log).n)
           /\ req[r].frames = <<>> )
        => req[r].status = Last(req[r].log).n

\* A request that was retried once was answered 429 for the upstream's 429.
C9_Witness ==
    \E r \in Requests :
        /\ req[r].pc = "done" /\ TerminalFailure(req[r])
        /\ Last(req[r].log).n = STATUS_TOO_MANY
        /\ Len(Sends(req[r])) = 2
        /\ req[r].status = STATUS_TOO_MANY

\* The request ended with an error response that has a body.
IsErrorResponse(rq) ==
    rq.pc = "done" /\ rq.status # STATUS_OK /\ rq.body # NoBody

\* The error response answers an upstream failure with a status other than
\* 401/403.
NonAuthUpstreamError(rq) ==
    /\ TerminalFailure(rq)
    /\ Last(rq.log).n # 0 /\ ~IsAuthStatus(Last(rq.log).n)

\* The body is {error: {message, type}}, with or without a code.
ErrorShape(b) ==
    /\ DOMAIN b = {"error"}
    /\ {"message", "type"} \subseteq DOMAIN b.error
    /\ DOMAIN b.error \subseteq {"message", "type", "code"}

\* The envelope of the upstream failure f, computed from what the upstream
\* answered: the SDK's message for it, its type or 'api_error', its code or
\* null.
Envelope(f) ==
    [error |->
        [message |-> ToString(f.n) \o " " \o f.up.error.message,
         type    |-> IF f.up.error.type # "" THEN f.up.error.type
                     ELSE "api_error",
         code    |-> IF f.up.error.code # "" THEN f.up.error.code
                     ELSE "null"]]

\* C10 as stated: the body of a non-auth upstream error response is the
\* upstream's body verbatim; every other error response's body is
\* {error: {message, type}}.
C10_Verbatim ==
    \A r \in Requests :
        IsErrorResponse(req[r]) =>
            IF NonAuthUpstreamError(req[r])
            THEN req[r].body = Last(req[r].log).up
            ELSE ErrorShape(req[r].body)

\* C10 amended: the body of a non-auth upstream error response is the
\* envelope {error: {message, type, code}} built from the SDK's error (type
\* 'api_error' and code null where the upstream gave none); every other error
\* response of handleChatCompletion has {error: {message, type}} with or
\* without a code; the router-key rejection has {error: {message}} only.
C10_Envelope ==
    \A r \in Requests :
        IsErrorResponse(req[r]) =>
            IF NonAuthUpstreamError(req[r])
            THEN req[r].body = Envelope(Last(req[r].log))
            ELSE IF RouterRejected(req[r])
                 THEN /\ req[r].status = STATUS_UNAUTHORIZED
                      /\ DOMAIN req[r].body = {"error"}
                      /\ DOMAIN req[r].body.error = {"message"}
                 ELSE ErrorShape(req[r].body)

\* An upstream 500 whose body names no type and no code was answered with
\* the defaults filled in.
C10_Witness ==
    \E r \in Requests :
        /\ IsErrorResponse(req[r]) /\ NonAuthUpstreamError(req[r])
        /\ Last(req[r].log).up.error.type = ""
        /\ req[r].body.error.type = "api_error"
        /\ req[r].body.error.code = "null"
        /\ req[r].body # Last(req[r].log).up

\* The request streamed and its upstream stream completed without error.
StreamCompleted(rq) ==
    /\ rq.pc = "done" /\ rq.stream
    /\ rq.log # <<>> /\ Last(rq.log).ev = "send"

\* The chunk frames of `frames` are one per chunk of `chunks`, in its order.
FramesFollow(frames, chunks) ==
    \A k \in 1 .. Len(chunks) :
        /\ k <= Len(frames)
        /\ frames[k].kind = "chunk" /\ frames[k].seq = k

\* C11. While a stream is relayed the frames written are one per upstream
\* chunk, in upstream order; when the stream completes without error they
\* are followed by exactly one [DONE] frame, the last thing written, and the
\* response is ended; nothing is ever written after [DONE].
C11_StreamFrames ==
    /\ [](\A r \in Requests :
            /\ req[r].pc = "streaming" =>
                 /\ Len(req[r].frames) = Len(req[r].chunks)
                 /\ FramesFollow(req[r].frames, req[r].chunks)
            /\ StreamCompleted(req[r]) =>
                 /\ Len(req[r].frames) = Len(req[r].chunks) + 1
                 /\ FramesFollow(req[r].frames, req[r].chunks)
                 /\ Last(req[r].frames) = DoneFrame
                 /\ req[r].ended)
    /\ [][ \A r \in Requests :
             (req[r].frames # <<>> /\ Last(req[r].frames) = DoneFrame)
                 => req'[r].frames = req[r].frames ]_vars

\* A stream of two chunks was relayed to its end.
C11_Witness ==
    \E r \in Requests :
        /\ StreamCompleted(req[r])
        /\ Len(req[r].chunks) = 2 /\ Len(req[r].frames) = 3
        /\ Last(req[r].frames) = DoneFrame

\* The chunk frames written for the request.
ChunkFrames(rq) == SelectSeq(rq.frames, LAMBDA f : f.kind = "chunk")

\* C12. All chunk frames written for one streaming response carry the same
\* response id, whatever ids the upstream chunks carry.
C12_OneResponseId ==
    \A r \in Requests :
        \A j, k \in DOMAIN ChunkFrames(req[r]) :
            ChunkFrames(req[r])[j].id = ChunkFrames(req[r])[k].id

\* The position of the "close" event in the request's history; 0 while its
\* connection is open.
ClosedAt(rq) ==
    IF \E k \in DOMAIN rq.log : rq.log[k].ev = "close"
    THEN CHOOSE k \in DOMAIN rq.log : rq.log[k].ev = "close"
    ELSE 0

\* C13. Once the inbound connection of a request has closed before its
\* response was complete, its upstream call is cancelled (none is in flight),
\* nothing more is written for it, and no refresh-and-resend is made for it.
C13_DisconnectCancels ==
    \A r \in Requests :
        LET lg == req[r].log
            k  == ClosedAt(req[r])
        IN  k # 0 =>
              /\ req[r].pc \notin {"sent", "streaming"}
              /\ Len(req[r].frames) = lg[k].n /\ req[r].body = NoBody
              /\ \A j \in (k + 1) .. Len(lg) : lg[j].ev # "send"

\* C14. The step in which a request's connection closes changes neither the
\* refresh operations, nor refreshLock, nor the credentials, nor what that
\* request awaits, nor any other request; and when an operation that a
\* disconnected request called or joined completes, every caller of it,
\* disconnected or not, continues with its outcome.
C14_RefreshSurvivesDisconnect ==
    [][ /\ \A r \in Requests :
             (ClosedAt(req[r]) = 0 /\ ClosedAt(req'[r]) # 0) =>
                 /\ ops' = ops /\ refreshLock' = refreshLock
                 /\ credentials' = credentials /\ file' = file
                 /\ req'[r].pc = req[r].pc
                 /\ req'[r].awaiting = req[r].awaiting
                 /\ \A q \in Requests \ {r} : req'[q] = req[q]
        /\ \A p \in DOMAIN ops :
             (  /\ ops[p].pending /\ ~ops'[p].pending
                /\ \E r \in CallersOf(p) : ClosedAt(req[r]) # 0 ) =>
                 \A q \in CallersOf(p) :
                     /\ req'[q].pc \notin Awaiting
                     /\ Outcome(req'[q]) = ops'[p].value ]_vars

\* The observed request's connection closed while it awaited a refresh; the
\* refresh completed, and it and another request were given its token.
C14_Witness ==
    \E p \in DOMAIN ops, q \in Requests \ {Observed} :
        LET lg == req[Observed].log
            k  == ClosedAt(req[Observed])
        IN  /\ k # 0 /\ k < Len(lg)
            /\ lg[k + 1].ev \in {"token", "refreshed"}
            /\ ops[p].value # 0 /\ lg[k + 1].n = ops[p].value
            /\ req[Observed].pc # "done" /\ req[q].pc # "done"
            /\ Outcome(req[q]) = ops[p].value

\* The request's bearer value is not the configured router key.
KeyMismatch(rq) == routerKey # 0 /\ rq.bearer # routerKey

\* C15. With a router key configured, a request whose bearer value differs
\* from it or is absent is answered 401 with {error:{message}}, and its
\* arrival loads no credentials, starts or joins no refresh and sends nothing
\* upstream; any other request (no key configured, or the right bearer) goes
\* on to handleChatCompletion.
C15_RouterKey ==
    /\ [](\A r \in Requests :
            req[r].pc # "new" =>
                IF KeyMismatch(req[r])
                THEN /\ req[r].pc = "done" /\ req[r].ended
                     /\ req[r].status = STATUS_UNAUTHORIZED
                     /\ DOMAIN req[r].body = {"error"}
                     /\ DOMAIN req[r].body.error = {"message"}
                     /\ req[r].log = <<>>
                ELSE req[r].pc \in Awaiting \/ req[r].log # <<>>)
    /\ [][ \A r \in Requests :
             (req[r].pc = "new" /\ req'[r].pc # "new" /\ KeyMismatch(req'[r]))
                 => /\ credentials' = credentials
                    /\ ops' = ops /\ refreshLock' = refreshLock ]_vars

\* With the key configured a request without Authorization header was
\* rejected while the token was within the margin.
C15_Witness ==
    \E r \in Requests :
        /\ routerKey # 0 /\ req[r].bearer = 0
        /\ req[r].pc = "done" /\ req[r].status = STATUS_UNAUTHORIZED
        /\ credentials # Null /\ WithinMargin(credentials)

\* With no key configured a request with a bearer value of its own was sent.
C15_WitnessNoKey ==
    \E r \in Requests :
        /\ routerKey = 0 /\ req[r].bearer = 8
        /\ Sends(req[r]) # <<>>

\* The positions of the messages and of the tools that carry the marker.
Marked(content) ==
    content.kind = "array"
        /\ \E k \in DOMAIN content.parts :
              content.parts[k].cache_control = EPHEMERAL
MarkedMessages(ms) == { k \in DOMAIN ms : Marked(ms[k].content) }
MarkedTools(t) == { k \in DOMAIN t.list : t.list[k].cache_control = EPHEMERAL }

\* The request has arrived with a body and has been sent at least once.
Called(rq) == rq.reqBody # NoBody /\ rq.calls # <<>>
Streaming(rq) == Truthy(rq.reqBody.stream)

\* C16: for a non-streaming request addCacheControl returns the messages and
\* tools exactly as given, and every call sent upstream for it carries the
\* inbound messages and tools with no cache marker the inbound body did not
\* carry.
C16_NonStreamingUnannotated ==
    \A r \in Requests :
        LET rq == req[r] body == rq.reqBody IN
        (Called(rq) /\ ~Streaming(rq)) =>
            /\ addCacheControl(body.messages, OrNull(body.tools), FALSE) =
                   [messages |-> body.messages, tools |-> OrNull(body.tools)]
            /\ \A k \in DOMAIN rq.calls :
                   /\ rq.calls[k].messages = body.messages
                   /\ rq.calls[k].tools =
                          (IF body.tools.kind = "array" THEN body.tools
                           ELSE NoTools)
                   /\ MarkedMessages(rq.calls[k].messages) \subseteq
                          MarkedMessages(body.messages)
                   /\ MarkedTools(rq.calls[k].tools) \subseteq
                          MarkedTools(body.tools)

\* A non-streaming request with a system message, a user message and tools
\* has been sent twice.
C16_Witness ==
    \E r \in Requests :
        /\ Called(req[r]) /\ ~Streaming(req[r])
        /\ Len(req[r].calls) > 1
        /\ WithRole(req[r].reqBody.messages, "system") # {}
        /\ WithRole(req[r].reqBody.messages, "user") # {}
        /\ Len(req[r].reqBody.tools.list) > 0

\* A content that can take the marker: a string or a non-empty array.
Markable(content) ==
    content.kind = "string" \/ (content.kind = "array" /\ content.parts # <<>>)
NonEmptyOf(ms, role) == { k \in WithRole(ms, role) : Markable(ms[k].content) }

\* The positions of the parts of a content that carry the marker.
MarkedParts(content) ==
    { k \in DOMAIN content.parts : content.parts[k].cache_control = EPHEMERAL }

\* C17 as stated: for a streaming request with a system message and a user
\* message of non-empty content and with a non-empty tools list, the marked
\* locations of every call are exactly the first system message, the last
\* user message and the last tool.
C17_ExactlyThree ==
    \A r \in Requests :
        LET rq == req[r] ms == rq.reqBody.messages IN
        (/\ Called(rq) /\ Streaming(rq)
         /\ NonEmptyOf(ms, "system") # {} /\ NonEmptyOf(ms, "user") # {}
         /\ Len(rq.reqBody.tools.list) > 0) =>
            \A k \in DOMAIN rq.calls :
                /\ MarkedMessages(rq.calls[k].messages) =
                       { Least(WithRole(ms, "system")),
                         Greatest(WithRole(ms, "user")) }
                /\ MarkedTools(rq.calls[k].tools) = { Len(rq.reqBody.tools.list) }

\* What the first system message (i = 1) or the last user message becomes in
\* the call: a string is wrapped into one marked text part, a non-empty array
\* gets the marker on its part i and on no other part.
MarkedAs(out, inb, i) ==
    /\ out.role = inb.role
    /\ out.content.kind = "array"
    /\ IF inb.content.kind = "string"
       THEN out.content.parts =
                << [type |-> "text", text |-> inb.content.text,
                    cache_control |-> EPHEMERAL] >>
       ELSE /\ MarkedParts(out.content) = {i}
            /\ Len(out.content.parts) = Len(inb.content.parts)
            /\ \A k \in DOMAIN inb.content.parts :
                   k # i => out.content.parts[k] = inb.content.parts[k]

\* C17 (amended): in every call of a streaming request the marked messages are
\* the first system message and the last user message, each only if its own
\* content is a string or a non-empty array (the system message marked on its
\* first part, the user message on its last), every other message is as it
\* came, and the marked tools are the last tool of a non-empty tools array:
\* exactly three locations when both messages have such content and the tools
\* list is not empty.
C17_MarkedLocations ==
    \A r \in Requests :
        LET rq  == req[r]
            ms  == rq.reqBody.messages
            sys == WithRole(ms, "system")
            usr == WithRole(ms, "user")
            s   == IF sys # {} /\ Markable(ms[Least(sys)].content)
                   THEN {Least(sys)} ELSE {}
            u   == IF usr # {} /\ Markable(ms[Greatest(usr)].content)
                   THEN {Greatest(usr)} ELSE {}
        IN
        (Called(rq) /\ Streaming(rq)) =>
            \A k \in DOMAIN rq.calls :
                LET out == rq.calls[k].messages IN
                /\ Len(out) = Len(ms)
                /\ MarkedMessages(out) = s \cup u
                /\ \A j \in DOMAIN ms : j \notin s \cup u => out[j] = ms[j]
                /\ \A j \in s : MarkedAs(out[j], ms[j], 1)
                /\ \A j \in u : MarkedAs(out[j], ms[j], Len(out[j].content.parts))
                /\ MarkedTools(rq.calls[k].tools) =
                       (IF Len(rq.reqBody.tools.list) > 0
                        THEN { Len(rq.reqBody.tools.list) } ELSE {})
                /\ (s # {} /\ u # {} /\ Len(rq.reqBody.tools.list) > 0) =>
                       Cardinality(MarkedMessages(out)) +
                           Cardinality(MarkedTools(rq.calls[k].tools)) =
                       Cardinality({"system", "user", "tool"})

\* A streaming request with two system messages, then a user message of two
\* parts, and two tools has been sent: three locations carry the marker.
C17_Witness ==
    \E r \in Requests :
        LET rq == req[r] ms == rq.reqBody.messages IN
        /\ Called(rq) /\ Streaming(rq)
        /\ Cardinality(WithRole(ms, "system")) > 1
        /\ WithRole(ms, "user") # {}
        /\ ms[Greatest(WithRole(ms, "user"))].content.kind = "array"
        /\ Len(rq.reqBody.tools.list) > 1
        /\ MarkedMessages(rq.calls[1].messages) =
               { Least(WithRole(ms, "system")), Greatest(WithRole(ms, "user")) }
        /\ MarkedTools(rq.calls[1].tools) = { Len(rq.reqBody.tools.list) }

\* The tools without their markers.
Unmarked(t) ==
    [t EXCEPT !.list = [k \in DOMAIN t.list |->
                          [t.list[k] EXCEPT !.cache_control = ""]]]

\* The scalar parameters handleChatCompletion forwards, and their values in a
\* body or in a call.
ForwardedParams ==
    {"functions", "tool_choice", "function_call", "max_tokens", "temperature",
     "top_p", "stop", "presence_penalty", "frequency_penalty"}
Param(b, name) ==
    CASE name = "functions"         -> b.functions
      [] name = "tool_choice"       -> b.tool_choice
      [] name = "function_call"     -> b.function_call
      [] name = "max_tokens"        -> b.max_tokens
      [] name = "temperature"       -> b.temperature
      [] name = "top_p"             -> b.top_p
      [] name = "stop"              -> b.stop
      [] name = "presence_penalty"  -> b.presence_penalty
      [] name = "frequency_penalty" -> b.frequency_penalty

\* C18: every one of tools, functions, tool_choice, function_call, max_tokens,
\* temperature, top_p, stop, presence_penalty and frequency_penalty that the
\* inbound body has is in every call sent for the request, with the same
\* value whatever it is (tools up to the cache marker).
C18_ForwardedAsGiven ==
    \A r \in Requests :
        LET rq == req[r] body == rq.reqBody IN
        Called(rq) =>
            \A k \in DOMAIN rq.calls :
                /\ \A name \in ForwardedParams :
                       Param(body, name) # Absent =>
                           Param(rq.calls[k], name) = Param(body, name)
                /\ body.tools # NoTools =>
                       Unmarked(rq.calls[k].tools) = body.tools

\* The metadata of every call sent so far.
AllMetadata ==
    UNION { { req[r].calls[k].metadata : k \in DOMAIN req[r].calls } :
            r \in Requests }

\* C19: every call carries metadata {sessionId, promptId, channel}; the
\* sessionId is one value on all calls, the promptIds of two distinct
\* requests differ, and the resend of a request carries the promptId of its
\* first send.
C19_Metadata ==
    /\ \A m \in AllMetadata :
           /\ DOMAIN m = {"sessionId", "promptId", "channel"}
           /\ m.channel = "SDK"
    /\ \A m, n \in AllMetadata : m.sessionId = n.sessionId
    /\ \A r, q \in Requests :
           (r # q /\ Called(req[r]) /\ Called(req[q])) =>
               \A k \in DOMAIN req[r].calls, j \in DOMAIN req[q].calls :
                   req[r].calls[k].metadata.promptId #
                       req[q].calls[j].metadata.promptId
    /\ \A r \in Requests :
           \A k \in DOMAIN req[r].calls :
               req[r].calls[k].metadata.promptId =
                   req[r].calls[1].metadata.promptId

\* Two requests have each been sent and, after a 401, sent again.
C19_Witness ==
    \E r, q \in Requests :
        /\ r # q
        /\ Len(req[r].calls) > 1 /\ Len(req[q].calls) > 1
        /\ req[r].isRetry /\ req[q].isRetry

\* An absolute HTTPS URL whose path ends in /v1.
IsHttpsV1(u) == Len(u) > 1 /\ u[1] = "https://" /\ u[Len(u)] = "/v1"

\* C20: getApiBaseUrl() yields an absolute HTTPS URL ending in /v1 for every
\* hint, and the default endpoint when the record has no hint; so does the
\* client of every request sent.
C20_HttpsV1 ==
    /\ \A h \in Hints :
           LET u == getApiBaseUrl([LoginRecord EXCEPT !.resource_url = h]) IN
           /\ IsHttpsV1(u)
           /\ h = <<>> => u = DEFAULT_DASHSCOPE_BASE_URL
    /\ \A r \in Requests :
           req[r].pc = "sent" =>
               IsHttpsV1(req[r].baseURL)

\* The refresh operations that complete in this step with an access token:
\* their token exchange has succeeded.
ExchangedNow(p) ==
    p \in DOMAIN ops /\ ops[p].pending /\ ~ops'[p].pending /\ ops'[p].value # 0

\* C21: when a token exchange succeeds, the cached record and the stored
\* record both hold the new access token and its expiry, and if that expiry
\* is beyond the safety margin getAccessToken() yields the new token, so the
\* next ensureValidToken() returns it without a network call.
C21_PersistedAndValid ==
    [][\A p \in DOMAIN ops :
         ExchangedNow(p) =>
             IF credentials' = Null \/ ~IsRecord(file') THEN FALSE
             ELSE /\ credentials'.access_token = ops'[p].value
                  /\ JSONparse(file'.text) = credentials'
                  /\ now < credentials'.expiry_date - SAFETY_MARGIN_MS =>
                         getAccessToken(credentials') = ops'[p].value]_vars

\* C22: the cached record changes only to the record just written, and a
\* refresh operation whose write failed does not complete with an access
\* token: what it reports as refreshed is what the store holds.
C22_WriteFailureReported ==
    [][/\ credentials' # credentials /\ credentials # Null =>
            (IsRecord(file') /\ JSONparse(file'.text) = credentials')
       /\ \A p \in DOMAIN ops :
            ExchangedNow(p) =>
                IF ~IsRecord(file') THEN FALSE
                ELSE JSONparse(file'.text).access_token = ops'[p].value]_vars

\* writeCredentials(creds) has just written: the file and the cached record
\* both changed in this step (a login run beside the server changes the file
\* only).
WrittenNow == file' # file /\ credentials' # credentials

C24_ReadNeverThrows ==
    ~IsRecord(file) =>
        /\ readCredentials(credentials) = Null
        /\ credentials = Null
        /\ ~healthBody.token_available
        /\ \A p \in DOMAIN ops : ~ops[p].net /\ ~ops[p].pending
        /\ \A r \in Requests :
             /\ req[r].pc \in {"new", "done"}
             /\ Sends(req[r]) = <<>>
             /\ req[r].pc = "done" =>
                    /\ req[r].status = STATUS_INTERNAL
                    /\ req[r].body = NoTokenBody

\* With an unparsable file the server has started and answered a request.
C24_Witness ==
    /\ file = FileCorrupt
    /\ started
    /\ \E r \in Requests : req[r].pc = "done" /\ req[r].status = STATUS_INTERNAL

\* The refresh operations whose token exchange has failed, and whether the
\* provider rejected the refresh token (400/401) or the failure was another
\* one (another status, no response, a timeout).
FailedExchanges ==
    { p \in DOMAIN ops :
        ops[p].net /\ ~ops[p].pending /\ ops[p].status # STATUS_OK }
Rejected(op) == op.status \in {STATUS_BAD_REQUEST, STATUS_UNAUTHORIZED}

\* C25 as stated: what refreshToken() yields to its callers for a rejected
\* refresh token differs from what it yields for another failure.
C25_KindsDistinguished ==
    \A p, q \in FailedExchanges :
        Rejected(ops[p]) # Rejected(ops[q]) => ops[p].value # ops[q].value

\* The requests that awaited operation p in ensureValidToken() and got null.
NoTokenFrom(rq) ==
    rq.pc = "done" /\ Len(rq.log) = 1 /\ rq.log[1].ev = "token" /\ rq.log[1].n = 0

\* C25 (amended): refreshToken() yields null for every failed exchange,
\* whatever its status: the kind of failure shows in the log only, and a
\* request whose ensureValidToken() got null is answered 500 with the same
\* 'No valid OAuth token. Run: qwen login' body in every case.
C25_FailuresAlike ==
    /\ \A p \in FailedExchanges : ops[p].value = 0
    /\ \A p, q \in FailedExchanges : ops[p].value = ops[q].value
    /\ \A r \in Requests :
           NoTokenFrom(req[r]) =>
               /\ req[r].status = STATUS_INTERNAL
               /\ req[r].body = NoTokenBody

\* Two exchanges have failed, one rejected by the provider and one for
\* another reason, and a request that awaited one of them has been answered.
C25_Witness ==
    /\ \E p, q \in FailedExchanges : Rejected(ops[p]) /\ ~Rejected(ops[q])
    /\ \E r \in Requests : NoTokenFrom(req[r])

\* Request r arrives in this step and its handler checks for a token.
ArrivesNow(r) == req[r].pc = "new" /\ req'[r].pc # "new"

\* C26: the record a request's token check looks at is the one in the file at
\* that moment, also when the file was rewritten by a login after the process
\* had cached an older record.
C26_LoadedBeforeUse ==
    [][\A r \in Requests :
         (ArrivesNow(r) /\ IsRecord(file)) =>
             IF credentials' = Null THEN FALSE
             ELSE credentials' = JSONparse(file.text)]_vars

\* The history entries request r gains in this step.
NewEvents(r) ==
    IF Len(req'[r].log) > Len(req[r].log)
    THEN { req'[r].log[i] : i \in (Len(req[r].log) + 1)..Len(req'[r].log) }
    ELSE {}

\* A refreshToken() call of request r yields null in this step.
DeniedNow(r) ==
    \E e \in NewEvents(r) : e.ev \in {"token", "refreshed"} /\ e.n = 0

\* The record a refreshToken() body running now would work with.
HasRefreshToken ==
    LET c == LoadIfNull(credentials)
    IN  IF c = Null THEN FALSE ELSE c.refresh_token # 0

\* C27: error isolation. A request is refused a token only for a reason of its
\* own: the exchange it waited for failed, or there is no refresh token to
\* exchange at the moment it asks. It is never handed the failure of an
\* earlier request's operation.
C27_Isolated ==
    [][\A r \in Requests :
         DeniedNow(r) =>
             IF req[r].awaiting # 0 THEN ops[req[r].awaiting].net
             ELSE ~HasRefreshToken]_vars

\* The requests whose send the upstream has answered with a completion.
Replied == { r \in Requests : req[r].response # NoBody }

\* C28: for every successful upstream response of a non-streaming request the
\* caller receives exactly one JSON body, with status 200 and no frame written:
\* its object is 'chat.completion', its choices are the upstream's, unchanged
\* and in the same order (an empty list when the upstream has none), and its
\* usage is the upstream's or, when the upstream omits it, zero prompt,
\* completion and total counts. Once sent, the body never changes.
C28_Envelope ==
    /\ [](\A r \in Replied :
            /\ req[r].pc = "done" /\ req[r].ended /\ ~req[r].stream
            /\ req[r].status = STATUS_OK /\ req[r].frames = <<>>
            /\ req[r].body.object = "chat.completion"
            /\ req[r].body.choices.kind = "array"
            /\ req[r].body.choices.list = req[r].response.choices.list
            /\ req[r].body.usage =
                  IF req[r].response.usage.kind = "object"
                  THEN req[r].response.usage
                  ELSE [kind |-> "object", prompt_tokens |-> 0,
                        completion_tokens |-> 0, total_tokens |-> 0])
    /\ [][\A r \in Requests :
            req[r].body # NoBody => req'[r].body = req[r].body]_vars

\* A request with a tool was answered by a completion without usage whose
\* second choice calls tools, and the caller has it second, with zero counts.
C28_Witness ==
    \E r \in Replied :
        /\ req[r].reqBody.tools.kind = "array"
        /\ req[r].response.usage = NoUsage
        /\ Len(req[r].body.choices.list) = 2
        /\ req[r].body.choices.list[1].finish_reason = "stop"
        /\ req[r].body.choices.list[2].finish_reason = "tool_calls"
        /\ req[r].body.choices.list[2].tool_calls = << "f", "g" >>
        /\ req[r].body.usage.total_tokens = 0

\* The server runs with a cached token that is within the safety margin.
Stale ==
    /\ started
    /\ IF credentials = Null THEN FALSE
       ELSE credentials.access_token # 0 /\ WithinMargin(credentials)

\* C29: the token's validity is re-checked in the background: a cached token
\* that has come within the safety margin leads to a token exchange (or to a
\* record that is valid again), whether or not a request arrives.
C29_BackgroundRefresh ==
    Stale ~> (InFlight(ops) # {} \/ ~Stale)

\* C30: refreshLock is non-null exactly while a refresh operation is running:
\* the promise it holds is pending, no other operation is in flight, and it is
\* null again once the operation has completed, in every outcome.
C30_LockWhileRunning ==
    IF refreshLock = 0 THEN InFlight(ops) = {}
    ELSE InFlight(ops) = {refreshLock}

\* The request's ensureValidToken() has handed over to refreshToken(): the
\* handler waits for an operation, or was given an already resolved null.
Delegated(r) ==
    \/ req'[r].pc = "awaitToken" /\ req'[r].awaiting \in InFlight(ops')
    \/ DeniedNow(r)

\* C31: expiry threshold. When a request asks for a token, the cached (or just
\* loaded) token is used, and no refresh operation is touched, if and only if
\* there is a record and now < expiry_date - 300000; at the boundary, and with
\* no expiry_date (taken as 0), ensureValidToken() goes to refreshToken().
C31_Threshold ==
    [][\A r \in Requests :
         ArrivesNow(r) =>
             LET c == LoadIfNull(credentials)
                 valid == IF c = Null THEN FALSE
                          ELSE now < c.expiry_date - SAFETY_MARGIN_MS
             IN  IF valid
                 THEN /\ req'[r].log[1] = Ev("token", c.access_token)
                      /\ ops' = ops /\ refreshLock' = refreshLock
                 ELSE Delegated(r)]_vars

\* A request arrived exactly at the boundary now + 300000 = expiry_date and
\* waits for a refresh.
C31_Witness ==
    \E r \in Requests :
        /\ req[r].pc = "awaitToken"
        /\ credentials # Null
        /\ credentials.expiry_date # 0
        /\ now + SAFETY_MARGIN_MS = credentials.expiry_date

\* A request arrived on a record without expiry_date and waits for a refresh.
C31_WitnessNoExpiry ==
    \E r \in Requests :
        /\ req[r].pc = "awaitToken"
        /\ credentials # Null
        /\ credentials.expiry_date = 0

\* C32: idempotent replay. The body sent on the retry after a 401/403 is the
\* transformed body of the first send, member for member (model, messages,
\* tools, parameters, metadata, stream options): it is what the handler built
\* once from the inbound body, not a second transformation of it.
C32_SameBodyOnRetry ==
    \A r \in Requests :
        \A k \in DOMAIN req[r].calls :
            /\ req[r].calls[k] = req[r].calls[1]
            /\ req[r].calls[k] =
                   WithStream([req[r] EXCEPT !.requestParams =
                       buildRequestParams(req[r].reqBody, req[r].promptId)])

\* A request with a system message and a tool was sent a second time.
C32_Witness ==
    \E r \in Requests :
        /\ Len(req[r].calls) = 2
        /\ req[r].calls[2].tools.kind = "array"
        /\ Len(req[r].calls[2].tools.list) > 0
        /\ WithRole(req[r].calls[2].messages, "system") # {}

\* C33: the cached record is whole. Whenever it changes it becomes, as one
\* value, the record parsed from the file (a load), the record built from one
\* token response (a refresh: its access token and its expiry are that
\* response's), or nothing (the process restarts); no step replaces the access
\* token and keeps the expiry, or the reverse.
C33_WholeRecord ==
    [][credentials' # credentials =>
         \/ credentials' = Null
         \/ IsRecord(file) /\ credentials' = JSONparse(file.text)
         \/ \E p \in InFlight(ops) :
              /\ credentials' =
                     newCreds([tokenData EXCEPT !.access_token = FreshToken(p)],
                              credentials)
              /\ ops'[p].value = credentials'.access_token
              /\ credentials'.expiry_date > now]_vars

\* A refresh has replaced a loaded record: the cache holds the token of an
\* exchange and that exchange's expiry.
C33_Witness ==
    \E p \in DOMAIN ops :
        /\ ops[p].status = STATUS_OK
        /\ IF credentials = Null THEN FALSE
           ELSE /\ credentials.access_token = FreshToken(p)
                /\ credentials.expiry_date # LoginRecord.expiry_date

\* C34: once a record is cached, the running server replaces it only in a
\* refresh operation, the one in flight, when its exchange succeeds: requests
\* arriving, /health, upstream answers and failed exchanges leave it as it is.
C34_WrittenOnlyByRefresh ==
    [][(credentials # Null /\ started' /\ credentials' # credentials) =>
         /\ refreshLock # 0
         /\ InFlight(ops) = {refreshLock}
         /\ ~ops'[refreshLock].pending
         /\ ops'[refreshLock].value # 0
         /\ credentials'.access_token = ops'[refreshLock].value
         /\ refreshLock' = 0]_vars

\* With a record cached, one request was answered from the cache and another
\* was sent again after a refresh that replaced the record.
C34_Witness ==
    /\ credentials # Null
    /\ \E r, q \in Requests :
         /\ req[r].pc = "done" /\ req[r].status = STATUS_OK
         /\ Len(Sends(req[r])) = 1
         /\ Len(Sends(req[q])) = 2
         /\ Last(Sends(req[q])).n = credentials.access_token

\* C35: the transformer never mutates its input. No step of the handler, on
\* the first send or on the resend, streaming or not, changes the inbound
\* body: its messages, their contents and its tools stay what the caller sent.
C35_InputUntouched ==
    [][\A r \in Requests : req'[r].reqBody = req[r].reqBody]_vars

\* A streaming request was sent with an annotated copy of its messages and of
\* its tools, and its inbound body still has the string content and the
\* unmarked tool.
C35_Witness ==
    \E r \in Requests :
        /\ Called(req[r]) /\ req[r].stream
        /\ req[r].calls[1].messages # req[r].reqBody.messages
        /\ req[r].calls[1].tools # req[r].reqBody.tools
        /\ \E k \in DOMAIN req[r].reqBody.messages :
               /\ req[r].reqBody.messages[k].content.kind = "string"
               /\ req[r].calls[1].messages[k].content.kind = "array"
        /\ \A k \in DOMAIN req[r].reqBody.tools.list :
               req[r].reqBody.tools.list[k].cache_control = ""

\* The operations whose exchange succeeds in this step, replacing the record.
SucceedsNow ==
    { p \in InFlight(ops) : ops'[p].status = STATUS_OK /\ credentials' # credentials }

\* C36: a successful refresh keeps what the provider does not replace. The new
\* record has the response's refresh_token and resource_url where the response
\* has them and the previous record's where it omits them, and its expiry_date
\* is the time of the refresh plus expires_in seconds, 3600 when the response
\* has no expires_in.
C36_KeepsWhatIsNotReplaced ==
    [][SucceedsNow # {} =>
         /\ credentials'.refresh_token =
               IF tokenData.refresh_token # 0 THEN tokenData.refresh_token
               ELSE credentials.refresh_token
         /\ credentials'.resource_url =
               IF tokenData.resource_url # <<>> THEN tokenData.resource_url
               ELSE credentials.resource_url
         /\ credentials'.expiry_date =
               IF tokenData.expires_in # 0
               THEN now + 1000 * tokenData.expires_in
               ELSE now + 1000 * 3600]_vars

\* A response without refresh_token, resource_url and expires_in was received
\* one clock step after the start: the record has the login's refresh token
\* and expires an hour after that moment.
C36_Witness ==
    /\ tokenData = MinimalResponse
    /\ now > 0
    /\ IF credentials = Null THEN FALSE
       ELSE /\ \E p \in DOMAIN ops : credentials.access_token = FreshToken(p)
            /\ credentials.refresh_token = LoginRecord.refresh_token
            /\ credentials.expiry_date = now + 1000 * 3600

\* C37: once a frame of a streaming response has been written, the request is
\* not sent upstream again: no request is on its way upstream, or waiting for
\* a refresh in order to be sent again, with frames already written.
C37_NoResendAfterFrames ==
    \A r \in Requests :
        req[r].pc \in {"sent", "awaitRetry"} => req[r].frames = <<>>

\* An upstream call of r fails in this step with something other than 401/403.
FailsOtherwiseNow(r) ==
    \E e \in NewEvents(r) : e.ev = "fail" /\ ~IsAuthStatus(e.n)

\* C38: an upstream failure that is not a 401/403 (429, 5xx, no response; on
\* the send or in mid-stream) triggers no refresh: refreshToken() is not
\* called, and the cached record, the stored record and the refresh handle are
\* what they were; the handler answers and returns.
C38_NoRefreshOnOtherFailures ==
    [][\A r \in Requests :
         FailsOtherwiseNow(r) =>
             /\ ops' = ops
             /\ refreshLock' = refreshLock
             /\ credentials' = credentials
             /\ file' = file
             /\ req'[r].pc = "done"
             /\ \A e \in NewEvents(r) : e.ev # "refreshed"]_vars

\* A first send was answered 429 and the handler returned: no refresh
\* operation has ever been started.
C38_Witness ==
    \E r \in Requests :
        /\ req[r].pc = "done"
        /\ Len(Sends(req[r])) = 1
        /\ Len(Fails(req[r])) = 1
        /\ Last(Fails(req[r])).n = STATUS_TOO_MANY
        /\ ops = <<>> /\ refreshLock = 0

\* C39: every request that has arrived gets its terminal response, once: the
\* handler ends the response and returns, on every path (no token, refresh
\* failure, error of the first send, error of the retry, error in mid-stream),
\* and a response that is ended is never written to or ended again.
C39_OneTerminalResponse ==
    /\ \A r \in Requests :
           (req[r].pc # "new") ~> (req[r].pc = "done" /\ req[r].ended)
    /\ [][\A r \in Requests : req[r].ended => req'[r] = req[r]]_vars

\* A request was sent twice and failed twice, and has its terminal response.
C39_Witness ==
    \E r \in Requests :
        /\ req[r].pc = "done" /\ req[r].ended
        /\ Len(Sends(req[r])) = 2
        /\ Len(Fails(req[r])) = 2

====
